---------------------------- MODULE Spec2Model ----------------------------
(***************************************************************************)
(* A model of the finite-MDP solver core of the rl package: the FiniteMDP  *)
(* interface (rl/mdp/base.py), two MDPs that implement it (SimpleMDP of    *)
(* tests/mdp/conftest.py and GamblersProblem of rl/mdp/gamblersproblem.py),*)
(* the backup operators and the sweep-based solvers of rl/mdp/solve.py.    *)
(*                                                                         *)
(* Numbers.  Python floats are modelled as fixed-point numbers: a          *)
(* probability, a policy weight and gamma are integers in hundredths       *)
(* (One = 1.0); a reward or a state value is an integer number of          *)
(* 1/Scale.  A product of such numbers is divided by One, rounding down,   *)
(* once per expression; sums and comparisons are exact.                    *)
(*                                                                         *)
(* Control.  The solvers are modelled statement by statement: pc is the    *)
(* position in the running function, the for loops advance one state of    *)
(* mdp.states per step; policy_iteration calls iterative_policy_evaluation *)
(* (its frame is the e_ variables) and resumes when it returns.            *)
(***************************************************************************)
EXTENDS Integers, Sequences, FiniteSets, TLC

\* ------------------------------------------------------------- numbers

\* 1.0 as a Probability (rl/mdp/_types.py): probabilities, policy weights
\* and gamma are counted in hundredths.
One == 100

\* 1.0 as a Reward (rl/mdp/_types.py): rewards and values are counted in
\* 1/Scale.
Scale == 100

\* numpy.isclose defaults as used by backup_single_state_optimal_actions:
\* rtol = 1e-5 = 1/RtolInv, atol = 1e-8 = 1/AtolInv.
RtolInv == 100000
AtolInv == 100000000

\* ------------------------------------------------------------- bounds

\* Largest maxiter argument drawn for a solver call.
MaxIter == 3

\* Largest goal drawn for GamblersProblem.
MaxGoal == 6

\* Largest goal drawn for a GamblersProblem that is solved exactly: the
\* numerators of the exact solution grow with the number of states.
MaxExactGoal == 3

\* Largest size drawn for GridWorld.
MaxSize == 3

\* Largest capacity drawn for JacksCarRental.
MaxCapacity == 2

\* Largest number of calls a test makes on an Agent.
MaxCalls == 4

\* Largest n_steps passed to SingleAgentWaitingSimulator.run.
MaxSteps == 3

\* Largest number of calls of run on one simulator.
MaxRuns == 2

\* Largest number of callbacks registered with a simulator.
MaxCallbacks == 2

\* ------------------------------------------------------------- helpers

Abs(x) == IF x < 0 THEN -x ELSE x

Max2(a, b) == IF a >= b THEN a ELSE b

Min2(a, b) == IF a <= b THEN a ELSE b

\* Python's max() over a non-empty list.
MaxOfSeq(q) == CHOOSE m \in {q[i] : i \in 1..Len(q)} :
                  \A i \in 1..Len(q) : q[i] <= m

\* Python's sum() over a list of numbers.
RECURSIVE SumOfSeq(_)
SumOfSeq(q) == IF q = <<>> THEN 0 ELSE Head(q) + SumOfSeq(Tail(q))

\* list.index(x): 0-based position of the first occurrence.
IndexOf(q, x) == (CHOOSE i \in 1..Len(q) :
                     q[i] = x /\ \A j \in 1..(i-1) : q[j] # x) - 1

\* range(lo, hi + 1) as a list.
RangeSeq(lo, hi) == [i \in 1..(IF hi >= lo THEN hi - lo + 1 ELSE 0) |-> lo + i - 1]

\* Mutant: only the first element kept by the mask (ties broken).
RECURSIVE FilterByMaskFirstOnly(_, _)
FilterByMaskFirstOnly(xs, keep) ==
    IF xs = <<>> \/ keep = <<>> THEN <<>>
    ELSE IF Head(keep) THEN <<Head(xs)>>
    ELSE FilterByMaskFirstOnly(Tail(xs), Tail(keep))

\* [x for x, m in zip(xs, keep) if m]
RECURSIVE FilterByMask(_, _)
FilterByMask(xs, keep) ==
    IF xs = <<>> \/ keep = <<>> THEN <<>>
    ELSE (IF Head(keep) THEN <<Head(xs)>> ELSE <<>>)
            \o FilterByMask(Tail(xs), Tail(keep))

SeqToSet(q) == {q[i] : i \in 1..Len(q)}

\* ------------------------------------------------------- the two MDPs

\* tests/mdp/conftest.py SimpleMDP: _states, _actions, _transitions.  A
\* transition is <<next state, probability, reward>>.
SimpleMDP == [kind |-> "SimpleMDP", goal |-> 0, p_h |-> 0]

SimpleStates == <<"A", "B", "C">>

SimpleActions == <<"R", "L">>

SimpleTransitions(state, action) ==
    CASE state = "A" /\ action = "R" -> << <<"B", 75, -Scale>>, <<"C", 25, Scale>> >>
      [] state = "A" /\ action = "L" -> << <<"C", 75, Scale>>, <<"B", 25, -Scale>> >>
      [] state = "B" /\ action = "R" -> << <<"C", 75, Scale>>, <<"A", 25, -Scale>> >>
      [] state = "B" /\ action = "L" -> << <<"A", 75, -Scale>>, <<"C", 25, Scale>> >>
      [] state = "C" /\ action = "R" -> << <<"C", One, 0>> >>
      [] state = "C" /\ action = "L" -> << <<"C", One, 0>> >>

\* rl/mdp/gamblersproblem.py GamblersProblem(goal, p_h).
GamblersProblem(goal, p_h) == [kind |-> "GamblersProblem", goal |-> goal, p_h |-> p_h]

\* itertools.product(range(a), range(b)) as a list of pairs, the second
\* component running fastest.
product(a, b) == [k \in 1..(a * b) |-> <<(k - 1) \div b, (k - 1) % b>>]

\* FiniteMDP.states: SimpleMDP._states, GamblersProblem's list(range(0,
\* goal + 1)), GridWorld's and JacksCarRental's products.
states(mdp) ==
    CASE mdp.kind = "SimpleMDP" -> SimpleStates
      [] mdp.kind = "GamblersProblem" -> RangeSeq(0, mdp.goal)
      [] mdp.kind = "GridWorld" -> product(mdp.size, mdp.size)
      [] mdp.kind = "JacksCarRental" -> product(mdp.capacity + 1, mdp.capacity + 1)

\* Mutant: the gambler may stake all the capital, whatever the goal.
actions_whole_capital(mdp, state) ==
    CASE mdp.kind = "SimpleMDP" -> SimpleActions
      [] mdp.kind = "GamblersProblem" ->
            IF state = 0 \/ state = mdp.goal THEN <<0>>
            ELSE RangeSeq(1, state)
      [] mdp.kind = "JacksCarRental" ->
            RangeSeq(-Min2(mdp.capacity - state[1], state[2]),
                     Min2(mdp.capacity - state[2], state[1]))

\* FiniteMDP.actions(state) of SimpleMDP, GamblersProblem and
\* JacksCarRental (GridWorld has a property instead, gw_actions).
actions(mdp, state) ==
    CASE mdp.kind = "SimpleMDP" -> SimpleActions
      [] mdp.kind = "GamblersProblem" ->
            IF state = 0 \/ state = mdp.goal THEN <<0>>
            ELSE RangeSeq(1, Min2(state, mdp.goal - state))
      [] mdp.kind = "JacksCarRental" ->
            RangeSeq(-Min2(mdp.capacity - state[1], state[2]),
                     Min2(mdp.capacity - state[2], state[1]))

\* Mutant: GridWorld counts its cells column by column.
s2i_column_major(mdp, state) ==
    CASE mdp.kind = "GamblersProblem" -> state
      [] mdp.kind = "GridWorld" -> state[2] * mdp.size + state[1]
      [] OTHER -> IndexOf(states(mdp), state)

\* FiniteMDP.s2i(state): the default list.index (SimpleMDP,
\* JacksCarRental), the overrides of GamblersProblem and GridWorld.
s2i(mdp, state) ==
    CASE mdp.kind = "GamblersProblem" -> state
      [] mdp.kind = "GridWorld" -> state[1] * mdp.size + state[2]
      [] OTHER -> IndexOf(states(mdp), state)

\* FiniteMDP.i2s(index): the default self.states[index], the overrides of
\* GamblersProblem and GridWorld.
i2s(mdp, index) ==
    CASE mdp.kind = "GamblersProblem" -> index
      [] mdp.kind = "GridWorld" -> <<index \div mdp.size, index % mdp.size>>
      [] OTHER -> states(mdp)[index + 1]

\* Mutant: GamblersProblem pays the reward on the losing branch's
\* probability.
next_states_and_rewards_losing_pays(mdp, state, action) ==
    IF mdp.kind = "SimpleMDP"
    THEN LET transitions == SimpleTransitions(state, action)
             n == Len(transitions)
         IN [nss   |-> [i \in 1..n |-> transitions[i][1]],
             ps    |-> [i \in 1..n |-> transitions[i][2]],
             exp_r |-> SumOfSeq([i \in 1..n |->
                          transitions[i][2] * transitions[i][3]]) \div One]
    ELSE IF action = 0
    THEN [nss |-> <<state>>, ps |-> <<One>>, exp_r |-> 0]
    ELSE [nss   |-> <<state - action, state + action>>,
          ps    |-> <<One - mdp.p_h, mdp.p_h>>,
          exp_r |-> IF state + action = mdp.goal
                    THEN ((One - mdp.p_h) * Scale) \div One ELSE 0]

\* FiniteMDP.next_states_and_rewards(state, action): the next states, their
\* probabilities and the expected reward.
next_states_and_rewards(mdp, state, action) ==
    IF mdp.kind = "SimpleMDP"
    THEN LET transitions == SimpleTransitions(state, action)
             n == Len(transitions)
         IN [nss   |-> [i \in 1..n |-> transitions[i][1]],
             ps    |-> [i \in 1..n |-> transitions[i][2]],
             exp_r |-> SumOfSeq([i \in 1..n |->
                          transitions[i][2] * transitions[i][3]]) \div One]
    ELSE IF action = 0
    THEN [nss |-> <<state>>, ps |-> <<One>>, exp_r |-> 0]
    ELSE [nss   |-> <<state - action, state + action>>,
          ps    |-> <<One - mdp.p_h, mdp.p_h>>,
          exp_r |-> IF state + action = mdp.goal
                    THEN (mdp.p_h * Scale) \div One ELSE 0]

StateSet(mdp) == SeqToSet(states(mdp))

\* ---------------------------------------------------- backup operators

\* sum(p * v[ns] for ns, p in zip(nss, ps)), in 1/(One*Scale).
RECURSIVE SumPV(_, _, _)
SumPV(nss, ps, v) ==
    IF nss = <<>> \/ ps = <<>> THEN 0
    ELSE Head(ps) * v[Head(nss)] + SumPV(Tail(nss), Tail(ps), v)

\* solve.py backup_action_value: exp_r + gamma * sum(p * v[ns]).
backup_action_value(mdp, state, action, v, gamma) ==
    LET t == next_states_and_rewards(mdp, state, action)
    IN t.exp_r + (gamma * SumPV(t.nss, t.ps, v)) \div (One * One)

\* solve.py backup_single_state_value: sum(p_a * backup_action_value(...))
\* over the (a, p_a) pairs of pi(state); pi_s is that collection.
backup_single_state_value(mdp, state, v, gamma, pi_s) ==
    SumOfSeq([i \in 1..Len(pi_s) |->
        pi_s[i][2] * backup_action_value(mdp, state, pi_s[i][1], v, gamma)])
      \div One

\* numpy.isclose(a, b) with the default rtol and atol:
\* |a - b| <= atol + rtol * |b|, on values counted in 1/Scale.
isclose(a, b) ==
    Abs(a - b) <= (Scale + Abs(b) * (AtolInv \div RtolInv)) \div AtolInv

\* solve.py backup_single_state_optimal_actions: the actions whose value
\* is close to the maximum, and that maximum.
backup_single_state_optimal_actions(mdp, state, v, gamma) ==
    LET available_actions == actions(mdp, state)
        all_action_values ==
            [i \in 1..Len(available_actions) |->
                backup_action_value(mdp, state, available_actions[i], v, gamma)]
        action_value == MaxOfSeq(all_action_values)
        is_maxing == [i \in 1..Len(all_action_values) |->
                         isclose(all_action_values[i], action_value)]
    IN [actions      |-> FilterByMask(available_actions, is_maxing),
        action_value |-> action_value]

\* A float that may still be -inf: None is -inf.
NegInf == <<>>

\* max(greatest, x) where greatest may be -inf.
max_with(greatest, x) ==
    IF greatest = NegInf THEN <<x>> ELSE <<Max2(greatest[1], x)>>

\* sum(p_ns * (r + gamma * initial_values[mdp.s2i(ns)]) for ns, p_ns in
\* zip(*ns_ptable)), in 1/(One*One*Scale).
RECURSIVE SumPRV(_, _, _, _, _, _)
SumPRV(mdp, nss, ps, r, initial_values, gamma) ==
    IF nss = <<>> \/ ps = <<>> THEN 0
    ELSE Head(ps) * (r * One + gamma * initial_values[s2i(mdp, Head(nss))])
         + SumPRV(mdp, Tail(nss), Tail(ps), r, initial_values, gamma)

\* Mutant: the running maximum starts at 0.0.
bov_first_greatest_zero == <<0>>

\* greatest_action_value = -np.inf (solve.py line 161)
bov_first_greatest == NegInf

\* for a in mdp.actions(s): greatest_action_value = max(greatest_action_
\* value, sum(...)) (solve.py lines 162-170), over the actions still to do.
RECURSIVE bov_greatest(_, _, _, _, _, _)
bov_greatest(mdp, s, todo, greatest, initial_values, gamma) ==
    IF todo = <<>> THEN greatest
    ELSE LET t == next_states_and_rewards(mdp, s, Head(todo))
             q == SumPRV(mdp, t.nss, t.ps, t.exp_r, initial_values, gamma)
                     \div (One * One)
         IN bov_greatest(mdp, s, Tail(todo), max_with(greatest, q),
                         initial_values, gamma)

\* Mutant: updated_values is the array the values are read from, so a
\* store is seen by the backups that follow it.
bov_store_aliased(arrays, i, x) ==
    [in |-> [arrays.in EXCEPT ![i] = x], out |-> [arrays.in EXCEPT ![i] = x]]

\* updated_values[mdp.s2i(s)] = greatest_action_value (solve.py line 171):
\* arrays.in is the local copy of the input, arrays.out is updated_values.
bov_store(arrays, i, x) == [arrays EXCEPT !.out[i] = x]

\* for s in order: ... (solve.py lines 160-171), over the states still to
\* visit.
RECURSIVE bov_loop(_, _, _, _)
bov_loop(mdp, order, arrays, gamma) ==
    IF order = <<>> THEN arrays
    ELSE LET s == Head(order)
             greatest == bov_greatest(mdp, s, actions(mdp, s),
                                      bov_first_greatest, arrays.in, gamma)
         IN bov_loop(mdp, Tail(order),
                     bov_store(arrays, s2i(mdp, s), greatest[1]), gamma)

\* np.array(x): a copy of x.
np_array(x) == x

\* np.zeros(n), an array indexed 0..n-1.
np_zeros(n) == [i \in 0..(n - 1) |-> 0]

\* solve.py backup_optimal_values, visiting the states in the given order
\* (the code's order is mdp.states).
backup_optimal_values_in(order, mdp, initial_values, gamma) ==
    bov_loop(mdp, order,
             [in |-> np_array(initial_values), out |-> np_zeros(Len(states(mdp)))],
             gamma).out

\* solve.py backup_optimal_values
backup_optimal_values(mdp, initial_values, gamma) ==
    backup_optimal_values_in(states(mdp), mdp, initial_values, gamma)

\* ------------------------------------------------------------ the state

VARIABLES
    mdp,            \* the FiniteMDP the call works on
    gamma,          \* discount factor, in hundredths
    fn,             \* the function called by the test or script
    v,              \* the caller's state-value mapping, mutated in place
    pi,             \* policy_iteration: the caller's deterministic policy
    pol,            \* iterative_policy_evaluation called directly: its pi
    tol,            \* the call's tol (None or Some(value in 1/Scale))
    maxiter,        \* the call's maxiter
    pc,             \* position in the running code
    niter,          \* policy_iteration / value_iteration: loop variable
                    \*   (0: not bound yet)
    idx,            \* their position in the sweep over mdp.states
    delta_v,        \* value_iteration: biggest change of the sweep so far
    policy_stable,  \* policy_iteration: no action changed in the sweep
    e_tol,          \* iterative_policy_evaluation: its tol
    e_maxiter,      \*   its maxiter
    e_niter,        \*   its loop variable (0: not bound yet)
    e_idx,          \*   its position in the sweep over mdp.states
    e_delta_v,      \*   biggest change of the sweep
    call,           \* a backup operator called directly: its name and state
    initial_values, \* the caller's array passed to backup_optimal_values
    warnings,       \* the warnings emitted so far, in order
    result,         \* what the call returned or raised
    v_sweep,        \* observer: v as it was when the current sweep began
    pi_sweep,       \* observer: pi as it was when the current sweep began
    visited,        \* observer: the states backed up so far in the sweep
    sweeps,         \* observer: per completed sweep of the called function,
                    \*   [delta |-> biggest change, full |-> every state
                    \*   was backed up once, v |-> v after the sweep]
    agent,          \* the Agent: its last_state and last_action attributes
    environment,    \* the Blackjack environment: its _state and its deck
    simulator,      \* the SingleAgentWaitingSimulator: its history, and the
                    \*   frame of the run call in progress
    events          \* observer: the calls made on the collaborators, in order

\* The variables of the MDP solvers and of their callers.
solver_vars == <<mdp, gamma, fn, v, pi, pol, tol, maxiter, pc, niter, idx, delta_v,
                 policy_stable, e_tol, e_maxiter, e_niter, e_idx, e_delta_v,
                 call, initial_values, warnings, result, v_sweep, pi_sweep, visited, sweeps>>

\* The objects of the agent-environment loop.
objects == <<agent, environment, simulator, events>>

vars == <<solver_vars, objects>>

\* No agent, environment or simulator has been constructed.
NoObjects ==
    agent = <<>> /\ environment = <<>> /\ simulator = <<>> /\ events = <<>>

\* Default of the maxiter parameter of the three solvers.
DefaultMaxiter == 100

NoResult == [kind |-> "none", value |-> 0]

Return(x) == [kind |-> "return", value |-> x]

\* `return niter` with niter never bound (the range was empty).
UnboundLocalError == [kind |-> "UnboundLocalError", value |-> 0]

NStates == Len(states(mdp))

\* The biggest |after[s] - before[s]| over the states.
MaxAbsChange(before, after) ==
    LET ds == {Abs(after[s] - before[s]) : s \in StateSet(mdp)}
    IN CHOOSE m \in ds : \A d \in ds : d <= m

\* Optional[float]: None, or a float.
None == <<>>

Some(x) == <<x>>

\* `tol is not None and delta < tol`
BelowTol(delta, t) == t # None /\ delta < t[1]

\* What one completed sweep looked like from outside.
SweepRecord(delta) ==
    [delta |-> delta,
     full  |-> visited = states(mdp),
     v     |-> v]

\* -------------------------------------- iterative_policy_evaluation

\* The pi argument at state s: the caller's policy, or policy_iteration's
\* lambda s: ((pi[s], 1.0),).
PiOf(s) == IF fn = "policy_iteration" THEN << <<pi[s], One>> >> ELSE pol[s]

\* Whether the for loop over range(1, maxiter + 1) has another value.
RangeHasNext(n, maxit) == n < maxit

\* Mutant: the sweep stops when the biggest change is at most tol.
ipe_should_break_at_most == e_tol # None /\ e_delta_v <= e_tol[1]

\* The stopping test after a sweep (solve.py line 261).
ipe_should_break == BelowTol(e_delta_v, e_tol)

\* Mutant: the stopping test stands inside the inner for loop.
ipe_at_stopping_test_in_loop == pc = "ipe_sweep" /\ e_idx >= 1

\* Where the stopping test stands: after the inner for loop is exhausted.
ipe_at_stopping_test == pc = "ipe_sweep" /\ e_idx = NStates

ipe_frame == <<e_tol, e_maxiter, e_niter, e_idx, e_delta_v>>

outer_frame == <<niter, idx, delta_v, policy_stable, pi_sweep>>

call_args == <<mdp, gamma, fn, pol, tol, maxiter, call, initial_values>>

\* for niter in range(1, maxiter + 1): delta_v = 0.0
ipe_next_sweep ==
    /\ pc = "ipe_for"
    /\ RangeHasNext(e_niter, e_maxiter)
    /\ e_niter' = e_niter + 1
    /\ e_delta_v' = 0
    /\ e_idx' = 0
    /\ pc' = "ipe_sweep"
    /\ v_sweep' = v
    /\ visited' = <<>>
    /\ UNCHANGED <<objects, call_args, outer_frame, v, pi, e_tol, e_maxiter,
                   warnings, result, sweeps>>

\* for s in mdp.states: v_old = v[s]; v[s] = backup_single_state_value(...);
\* delta_v = max(delta_v, abs(v[s] - v_old))
ipe_backup ==
    /\ pc = "ipe_sweep"
    /\ e_idx < NStates
    /\ LET s == states(mdp)[e_idx + 1]
           v_old == v[s]
           v_new == backup_single_state_value(mdp, s, v, gamma, PiOf(s))
       IN /\ v' = [v EXCEPT ![s] = v_new]
          /\ e_delta_v' = Max2(e_delta_v, Abs(v_new - v_old))
          /\ visited' = Append(visited, s)
    /\ e_idx' = e_idx + 1
    /\ UNCHANGED <<objects, call_args, outer_frame, pi, e_tol, e_maxiter, e_niter, pc,
                   warnings, result, v_sweep, sweeps>>

\* if tol is not None and delta_v < tol: break
ipe_stopping_test ==
    /\ ipe_at_stopping_test
    /\ pc' = IF ipe_should_break THEN "ipe_return" ELSE "ipe_for"
    /\ sweeps' = IF fn = "iterative_policy_evaluation"
                 THEN Append(sweeps, SweepRecord(MaxAbsChange(v_sweep, v)))
                 ELSE sweeps
    /\ UNCHANGED <<objects, call_args, outer_frame, ipe_frame, v, pi, warnings, result,
                   v_sweep, visited>>

\* The warning of the loop's else clause.
ipe_warning == "maxiter sweeps were completed before solution converged"

\* Mutant: the else clause warns whatever tol is.
ipe_else_warnings_always == <<ipe_warning>>

\* What the else clause adds to the warnings (solve.py lines 268-273).
ipe_else_warnings == IF e_tol # None THEN <<ipe_warning>> ELSE <<>>

\* else: (the loop ran out)  if tol is not None: warn(...)
ipe_exhausted ==
    /\ pc = "ipe_for"
    /\ ~RangeHasNext(e_niter, e_maxiter)
    /\ warnings' = warnings \o ipe_else_warnings
    /\ pc' = "ipe_return"
    /\ UNCHANGED <<objects, call_args, outer_frame, ipe_frame, v, pi, result, v_sweep,
                   visited, sweeps>>

\* What `return niter` gives: niter, or UnboundLocalError when the loop
\* never bound it.
return_niter(n) == IF n = 0 THEN UnboundLocalError ELSE Return(n)

\* return niter, to the test or script that called
ipe_return ==
    /\ pc = "ipe_return"
    /\ fn = "iterative_policy_evaluation"
    /\ result' = return_niter(e_niter)
    /\ pc' = "done"
    /\ UNCHANGED <<objects, call_args, outer_frame, ipe_frame, v, pi, warnings,
                   v_sweep, visited, sweeps>>

\* ------------------------------------------------------ the calls drawn

\* gamma values drawn: 0.5, 0.9 and 1.0 (test_gamblersproblem.py uses 1.0).
Gammas == {50, 90, One}

\* Initial state values drawn for SimpleMDP (test_solve.py v: 3.0, 1.0, 0.0).
SimpleValues == {0, Scale, 3 * Scale}

\* tol values drawn: None, 0.0, the resolution, and 0.5.
Tols == {None, Some(0), Some(1), Some(Scale \div 2)}

\* The stochastic policies drawn for SimpleMDP: pi of test_solve.py, and
\* the uniform random policy.
SimplePolicies ==
    { [s \in StateSet(SimpleMDP) |->
         IF s = "A" THEN << <<"L", 60>>, <<"R", 40>> >> ELSE << <<"L", One>> >>],
      [s \in StateSet(SimpleMDP) |-> << <<"R", 50>>, <<"L", 50>> >>] }

\* The GamblersProblem instances drawn: goal 2..MaxGoal, p_h 0.4
\* (test_gamblersproblem.py) .
Gamblers == {GamblersProblem(g, 40) : g \in 2..MaxGoal}

\* The policies drawn for a GamblersProblem: always the smallest stake,
\* always the largest.
GamblerPolicies(m) ==
    { [s \in StateSet(m) |-> << <<actions(m, s)[1], One>> >>],
      [s \in StateSet(m) |-> << <<actions(m, s)[Len(actions(m, s))], One>> >>] }

\* The caller's objects before a call of iterative_policy_evaluation.
InitIPE ==
    /\ \/ /\ mdp = SimpleMDP
          /\ v \in [StateSet(SimpleMDP) -> SimpleValues]
          /\ pol \in SimplePolicies
       \/ /\ mdp \in Gamblers
          /\ v = [s \in StateSet(mdp) |-> 0]
          /\ pol \in GamblerPolicies(mdp)
    /\ gamma \in Gammas
    /\ fn = "iterative_policy_evaluation"
    /\ pi = <<>>
    /\ tol \in Tols
    /\ maxiter \in 0..MaxIter
    /\ pc = "ipe_for"
    /\ niter = 0 /\ idx = 0 /\ delta_v = 0 /\ policy_stable = TRUE
    /\ e_tol = tol /\ e_maxiter = maxiter
    /\ e_niter = 0 /\ e_idx = 0 /\ e_delta_v = 0
    /\ call = <<>> /\ initial_values = <<>>
    /\ warnings = <<>>
    /\ result = NoResult
    /\ v_sweep = v
    /\ pi_sweep = pi
    /\ visited = <<>>
    /\ sweeps = <<>>
    /\ NoObjects

NextIPE ==
    \/ ipe_next_sweep
    \/ ipe_backup
    \/ ipe_stopping_test
    \/ ipe_exhausted
    \/ ipe_return

\* A call of iterative_policy_evaluation(v, mdp, gamma, pi, tol, maxiter).
SpecIPE == InitIPE /\ [][NextIPE]_vars

\* ------------------------------------------------- policy_iteration

\* The states whose action differs between two policies.
ChangedStates(before, after) == {s \in StateSet(mdp) : after[s] # before[s]}

\* What one completed policy-improvement sweep looked like from outside.
ImprovementRecord ==
    [delta |-> Cardinality(ChangedStates(pi_sweep, pi)),
     full  |-> visited = states(mdp),
     v     |-> v]

\* for niter in tqdm(range(1, maxiter + 1)): policy_stable = True
pi_next_sweep ==
    /\ pc = "pi_for"
    /\ RangeHasNext(niter, maxiter)
    /\ niter' = niter + 1
    /\ policy_stable' = TRUE
    /\ idx' = 0
    /\ pc' = "pi_sweep"
    /\ pi_sweep' = pi
    /\ visited' = <<>>
    /\ UNCHANGED <<objects, call_args, ipe_frame, v, pi, delta_v, warnings, result,
                   v_sweep, sweeps>>

\* Mutant: pi[s] is set to the first optimal action whether or not the old
\* action is among the optimal ones.
improved_action_always_first(old_a, new_as) == new_as[1]

\* Mutant: policy improvement finds the better action and never writes it
\* into pi[s].
improved_action_keeps_old(old_a, new_as) == old_a

\* The action policy improvement leaves in pi[s], given the tie set new_as
\* (solve.py lines 305-307).
improved_action(old_a, new_as) ==
    IF old_a \notin SeqToSet(new_as) THEN new_as[1] ELSE old_a

\* for s in mdp.states: old_a = pi[s]; new_as, _ = backup_single_state_
\* optimal_actions(mdp, s, v, gamma); if old_a not in new_as: ...
pi_improve ==
    /\ pc = "pi_sweep"
    /\ idx < NStates
    /\ LET s == states(mdp)[idx + 1]
           old_a == pi[s]
           new_as == backup_single_state_optimal_actions(mdp, s, v, gamma).actions
       IN /\ policy_stable' = IF old_a \notin SeqToSet(new_as)
                              THEN FALSE ELSE policy_stable
          /\ pi' = [pi EXCEPT ![s] = improved_action(old_a, new_as)]
          /\ visited' = Append(visited, s)
    /\ idx' = idx + 1
    /\ UNCHANGED <<objects, call_args, ipe_frame, v, niter, delta_v, pc, warnings,
                   result, v_sweep, pi_sweep, sweeps>>

\* if policy_stable: break
pi_stable_break ==
    /\ pc = "pi_sweep"
    /\ idx = NStates
    /\ policy_stable
    /\ pc' = "pi_return"
    /\ sweeps' = Append(sweeps, ImprovementRecord)
    /\ UNCHANGED <<objects, call_args, outer_frame, ipe_frame, v, pi, warnings, result,
                   v_sweep, visited>>

\* Mutant: policy_iteration hands its own maxiter on to the evaluation.
pi_call_evaluation_passes_maxiter ==
    /\ pc = "pi_sweep"
    /\ idx = NStates
    /\ ~policy_stable
    /\ e_tol' = tol
    /\ e_maxiter' = maxiter
    /\ e_niter' = 0
    /\ e_idx' = 0
    /\ e_delta_v' = 0
    /\ pc' = "ipe_for"
    /\ sweeps' = Append(sweeps, ImprovementRecord)
    /\ UNCHANGED <<objects, call_args, outer_frame, v, pi, warnings, result, v_sweep,
                   visited>>

\* iterative_policy_evaluation(v, mdp, gamma, (lambda s: ((pi[s], 1.0),)),
\* tol): maxiter takes its default.
pi_call_evaluation ==
    /\ pc = "pi_sweep"
    /\ idx = NStates
    /\ ~policy_stable
    /\ e_tol' = tol
    /\ e_maxiter' = DefaultMaxiter
    /\ e_niter' = 0
    /\ e_idx' = 0
    /\ e_delta_v' = 0
    /\ pc' = "ipe_for"
    /\ sweeps' = Append(sweeps, ImprovementRecord)
    /\ UNCHANGED <<objects, call_args, outer_frame, v, pi, warnings, result, v_sweep,
                   visited>>

\* iterative_policy_evaluation returns to policy_iteration, which drops
\* the value and goes round its loop.
ipe_return_to_pi ==
    /\ pc = "ipe_return"
    /\ fn = "policy_iteration"
    /\ IF e_niter = 0
       THEN result' = UnboundLocalError /\ pc' = "done"
       ELSE result' = result /\ pc' = "pi_for"
    /\ UNCHANGED <<objects, call_args, outer_frame, ipe_frame, v, pi, warnings,
                   v_sweep, visited, sweeps>>

pi_warning == "maxiter reached but policy not yet stable"

\* else: warn("maxiter reached but policy not yet stable")
pi_exhausted ==
    /\ pc = "pi_for"
    /\ ~RangeHasNext(niter, maxiter)
    /\ warnings' = Append(warnings, pi_warning)
    /\ pc' = "pi_return"
    /\ UNCHANGED <<objects, call_args, outer_frame, ipe_frame, v, pi, result, v_sweep,
                   visited, sweeps>>

\* return niter
pi_return ==
    /\ pc = "pi_return"
    /\ result' = return_niter(niter)
    /\ pc' = "done"
    /\ UNCHANGED <<objects, call_args, outer_frame, ipe_frame, v, pi, warnings,
                   v_sweep, visited, sweeps>>

\* tol values drawn for policy_iteration and value_iteration, whose tol is
\* a float: 0.0, the resolution, and 0.5.
FloatTols == Tols \ {None}

\* Initial deterministic policies drawn for SimpleMDP.
SimpleDetPolicies == [StateSet(SimpleMDP) -> SeqToSet(SimpleActions)]

\* Initial deterministic policies drawn for a GamblersProblem: the smallest
\* stake everywhere, the largest stake everywhere.
GamblerDetPolicies(m) ==
    { [s \in StateSet(m) |-> actions(m, s)[1]],
      [s \in StateSet(m) |-> actions(m, s)[Len(actions(m, s))]] }

\* Initial state values drawn for SimpleMDP by the policy_iteration and
\* value_iteration calls.
SolverValues == {0, 3 * Scale}

\* Initial state values drawn for a GamblersProblem by policy_iteration
\* calls: all zero, or 2.0 in every state but the two terminal ones.
GamblerValues(m) ==
    { [s \in StateSet(m) |-> 0],
      [s \in StateSet(m) |-> IF s = 0 \/ s = m.goal THEN 0 ELSE 2 * Scale] }

\* The caller's objects before a call of policy_iteration.
InitPI ==
    /\ \/ /\ mdp = SimpleMDP
          /\ v \in [StateSet(SimpleMDP) -> SolverValues]
          /\ pi \in SimpleDetPolicies
       \/ /\ mdp \in Gamblers
          /\ v \in GamblerValues(mdp)
          /\ pi \in GamblerDetPolicies(mdp)
    /\ gamma \in Gammas
    /\ fn = "policy_iteration"
    /\ pol = <<>>
    /\ tol \in FloatTols
    /\ maxiter \in 0..MaxIter
    /\ pc = "pi_for"
    /\ niter = 0 /\ idx = 0 /\ delta_v = 0 /\ policy_stable = TRUE
    /\ e_tol = None /\ e_maxiter = 0
    /\ e_niter = 0 /\ e_idx = 0 /\ e_delta_v = 0
    /\ call = <<>> /\ initial_values = <<>>
    /\ warnings = <<>>
    /\ result = NoResult
    /\ v_sweep = v
    /\ pi_sweep = pi
    /\ visited = <<>>
    /\ sweeps = <<>>
    /\ NoObjects

NextPI ==
    \/ pi_next_sweep
    \/ pi_improve
    \/ pi_stable_break
    \/ pi_call_evaluation
    \/ ipe_next_sweep
    \/ ipe_backup
    \/ ipe_stopping_test
    \/ ipe_exhausted
    \/ ipe_return_to_pi
    \/ pi_exhausted
    \/ pi_return

\* A call of policy_iteration(v, pi, mdp, gamma, tol, maxiter).
SpecPI == InitPI /\ [][NextPI]_vars

\* -------------------------------------------------- value_iteration

\* The stopping test after a sweep (solve.py line 347).
vi_should_break == delta_v < tol[1]

\* for niter in tqdm(range(1, maxiter + 1)): delta_v = 0.0
vi_next_sweep ==
    /\ pc = "vi_for"
    /\ RangeHasNext(niter, maxiter)
    /\ niter' = niter + 1
    /\ delta_v' = 0
    /\ idx' = 0
    /\ pc' = "vi_sweep"
    /\ v_sweep' = v
    /\ visited' = <<>>
    /\ UNCHANGED <<objects, call_args, ipe_frame, v, pi, policy_stable, pi_sweep,
                   warnings, result, sweeps>>

\* Mutant: the backups of a sweep read a copy of v taken when the sweep
\* began.
vi_backup_from_copy ==
    /\ pc = "vi_sweep"
    /\ idx < NStates
    /\ LET s == states(mdp)[idx + 1]
           v_old == v[s]
           v_new == backup_single_state_optimal_actions(mdp, s, v_sweep, gamma).action_value
       IN /\ v' = [v EXCEPT ![s] = v_new]
          /\ delta_v' = Max2(delta_v, Abs(v_old - v_new))
          /\ visited' = Append(visited, s)
    /\ idx' = idx + 1
    /\ UNCHANGED <<objects, call_args, ipe_frame, pi, niter, policy_stable, pi_sweep,
                   pc, warnings, result, v_sweep, sweeps>>

\* for s in mdp.states: v_old = v[s]; _, v[s] = backup_single_state_
\* optimal_actions(mdp, s, v, gamma); delta_v = max(delta_v, abs(v_old - v[s]))
vi_backup ==
    /\ pc = "vi_sweep"
    /\ idx < NStates
    /\ LET s == states(mdp)[idx + 1]
           v_old == v[s]
           v_new == backup_single_state_optimal_actions(mdp, s, v, gamma).action_value
       IN /\ v' = [v EXCEPT ![s] = v_new]
          /\ delta_v' = Max2(delta_v, Abs(v_old - v_new))
          /\ visited' = Append(visited, s)
    /\ idx' = idx + 1
    /\ UNCHANGED <<objects, call_args, ipe_frame, pi, niter, policy_stable, pi_sweep,
                   pc, warnings, result, v_sweep, sweeps>>

\* if delta_v < tol: break
vi_stopping_test ==
    /\ pc = "vi_sweep"
    /\ idx = NStates
    /\ pc' = IF vi_should_break THEN "vi_return" ELSE "vi_for"
    /\ sweeps' = Append(sweeps, SweepRecord(MaxAbsChange(v_sweep, v)))
    /\ UNCHANGED <<objects, call_args, outer_frame, ipe_frame, v, pi, warnings, result,
                   v_sweep, visited>>

vi_warning == "maxiter reached without convergence within tolerance tol"

\* else: warn("`maxiter` reached without convergence within tolerance `tol`")
vi_exhausted ==
    /\ pc = "vi_for"
    /\ ~RangeHasNext(niter, maxiter)
    /\ warnings' = Append(warnings, vi_warning)
    /\ pc' = "vi_return"
    /\ UNCHANGED <<objects, call_args, outer_frame, ipe_frame, v, pi, result, v_sweep,
                   visited, sweeps>>

\* return niter
vi_return ==
    /\ pc = "vi_return"
    /\ result' = return_niter(niter)
    /\ pc' = "done"
    /\ UNCHANGED <<objects, call_args, outer_frame, ipe_frame, v, pi, warnings,
                   v_sweep, visited, sweeps>>

\* The caller's objects before a call of value_iteration.
InitVI ==
    /\ \/ /\ mdp = SimpleMDP
          /\ v \in [StateSet(SimpleMDP) -> SimpleValues]
       \/ /\ mdp \in Gamblers
          /\ v = [s \in StateSet(mdp) |-> 0]
    /\ gamma \in Gammas
    /\ fn = "value_iteration"
    /\ pi = <<>>
    /\ pol = <<>>
    /\ tol \in FloatTols
    /\ maxiter \in 0..MaxIter
    /\ pc = "vi_for"
    /\ niter = 0 /\ idx = 0 /\ delta_v = 0 /\ policy_stable = TRUE
    /\ e_tol = None /\ e_maxiter = 0
    /\ e_niter = 0 /\ e_idx = 0 /\ e_delta_v = 0
    /\ call = <<>> /\ initial_values = <<>>
    /\ warnings = <<>>
    /\ result = NoResult
    /\ v_sweep = v
    /\ pi_sweep = pi
    /\ visited = <<>>
    /\ sweeps = <<>>
    /\ NoObjects

NextVI ==
    \/ vi_next_sweep
    \/ vi_backup
    \/ vi_stopping_test
    \/ vi_exhausted
    \/ vi_return

\* A call of value_iteration(v, mdp, gamma, tol, maxiter).
SpecVI == InitVI /\ [][NextVI]_vars

\* ----------------------------------- the backup operators, called directly

\* np.array(list(v.values())): the caller's array of the values of v, in
\* the order of mdp.states (test_solve.py line 165).
ArrayOf(m, vmap) == [i \in 0..(Len(states(m)) - 1) |-> vmap[i2s(m, i)]]

\* State values drawn for SimpleMDP: those of test_solve.py (3.0, 1.0, 0.0),
\* 4.0, which ties the two actions of state A when gamma is 0.5, and -1.0.
BackupValues == SimpleValues \cup {4 * Scale, -Scale}

\* State values drawn for a GamblersProblem: those of the solver calls,
\* and large ones whose backed-up action values differ by less than the
\* isclose tolerance without being equal.
GamblerBackupValues(m) ==
    GamblerValues(m) \cup
    { [s \in StateSet(m) |-> IF s = 0 \/ s = m.goal THEN 99960 ELSE 100001] }

\* actions, action_value = backup_single_state_optimal_actions(mdp, s, v,
\* gamma), for some state s.
call_optimal_actions ==
    /\ pc = "idle"
    /\ \E s \in StateSet(mdp) :
         /\ call' = [op |-> "backup_single_state_optimal_actions", state |-> <<s>>]
         /\ result' = Return(backup_single_state_optimal_actions(mdp, s, v, gamma))
    /\ pc' = "done"
    /\ UNCHANGED <<objects, mdp, gamma, fn, pol, tol, maxiter, initial_values,
                   outer_frame, ipe_frame, v, pi, warnings, v_sweep, visited,
                   sweeps>>

\* updated_v = backup_optimal_values(mdp, initial_values, gamma)
call_backup_optimal_values ==
    /\ pc = "idle"
    /\ call' = [op |-> "backup_optimal_values", state |-> <<>>]
    /\ result' = Return(backup_optimal_values(mdp, initial_values, gamma))
    /\ pc' = "done"
    /\ UNCHANGED <<objects, mdp, gamma, fn, pol, tol, maxiter, initial_values,
                   outer_frame, ipe_frame, v, pi, warnings, v_sweep, visited,
                   sweeps>>

\* The caller's objects before a direct call of a backup operator.
InitBackup ==
    /\ \/ /\ mdp = SimpleMDP
          /\ v \in [StateSet(SimpleMDP) -> BackupValues]
       \/ /\ mdp \in Gamblers
          /\ v \in GamblerBackupValues(mdp)
    /\ gamma \in Gammas
    /\ fn = "backup"
    /\ pi = <<>>
    /\ pol = <<>>
    /\ tol = None
    /\ maxiter = 0
    /\ pc = "idle"
    /\ niter = 0 /\ idx = 0 /\ delta_v = 0 /\ policy_stable = TRUE
    /\ e_tol = None /\ e_maxiter = 0
    /\ e_niter = 0 /\ e_idx = 0 /\ e_delta_v = 0
    /\ call = <<>>
    /\ initial_values = ArrayOf(mdp, v)
    /\ warnings = <<>>
    /\ result = NoResult
    /\ v_sweep = v
    /\ pi_sweep = pi
    /\ visited = <<>>
    /\ sweeps = <<>>
    /\ NoObjects

NextBackup ==
    \/ call_optimal_actions
    \/ call_backup_optimal_values

\* One direct call of a backup operator of solve.py.
SpecBackup == InitBackup /\ [][NextBackup]_vars

\* ------------------------------------- backup_policy_values_operator

\* np.zeros((n, n)), a matrix indexed 0..n-1 by 0..n-1.
np_zeros2(n) == [i \in 0..(n - 1) |-> [j \in 0..(n - 1) |-> 0]]

\* expected_rewards_vector[mdp.s2i(s)] += p_a * r (solve.py line 133).
\* The vector holds the exact products, in 1/(One*Scale).
bpvo_add_reward(b, i, p_a, r) == [b EXCEPT ![i] = @ + p_a * r]

\* Mutant: the entry is assigned, not added to, so the contribution of an
\* earlier action or next state to the same entry is lost.
bpvo_add_transition_assign(A, i, j, g, p_a, p_ns) ==
    [A EXCEPT ![i][j] = g * p_a * p_ns]

\* discounted_transitions_matrix[mdp.s2i(s), mdp.s2i(ns)] += gamma * p_a *
\* p_ns (solve.py lines 135-137).  The matrix holds the exact products, in
\* 1/(One*One*One).
bpvo_add_transition(A, i, j, g, p_a, p_ns) ==
    [A EXCEPT ![i][j] = @ + g * p_a * p_ns]

\* for ns, p_ns in zip(*ns_ptable): ... (solve.py lines 134-137), over the
\* next states still to add.
RECURSIVE bpvo_next_states(_, _, _, _, _, _, _)
bpvo_next_states(m, A, i, nss, ps, g, p_a) ==
    IF nss = <<>> \/ ps = <<>> THEN A
    ELSE bpvo_next_states(m,
            bpvo_add_transition(A, i, s2i(m, Head(nss)), g, p_a, Head(ps)),
            i, Tail(nss), Tail(ps), g, p_a)

\* for a, p_a in pi(s): ... (solve.py lines 131-137), over the pairs of
\* pi(s) still to do; Ab is the pair of arrays being filled.
RECURSIVE bpvo_actions(_, _, _, _, _)
bpvo_actions(m, Ab, s, pi_s, g) ==
    IF pi_s = <<>> THEN Ab
    ELSE LET a == Head(pi_s)[1]
             p_a == Head(pi_s)[2]
             t == next_states_and_rewards(m, s, a)
         IN bpvo_actions(m,
               [A |-> bpvo_next_states(m, Ab.A, s2i(m, s), t.nss, t.ps, g, p_a),
                b |-> bpvo_add_reward(Ab.b, s2i(m, s), p_a, t.exp_r)],
               s, Tail(pi_s), g)

\* for s in mdp.states: ... (solve.py lines 130-137), over the states still
\* to visit.
RECURSIVE bpvo_states(_, _, _, _, _)
bpvo_states(m, Ab, todo, g, policy) ==
    IF todo = <<>> THEN Ab
    ELSE bpvo_states(m, bpvo_actions(m, Ab, Head(todo), policy[Head(todo)], g),
                     Tail(todo), g, policy)

\* solve.py backup_policy_values_operator: the pair (A, b), A in
\* 1/(One*One*One) and b in 1/(One*Scale).
backup_policy_values_operator(m, g, policy) ==
    bpvo_states(m,
                [A |-> np_zeros2(Len(states(m))), b |-> np_zeros(Len(states(m)))],
                states(m), g, policy)

\* --------------------------------------------------- the exact solvers

\* The greatest common divisor of two naturals.
RECURSIVE Gcd(_, _)
Gcd(a, b) == IF b = 0 THEN a ELSE Gcd(b, a % b)

\* An exact number num/den in lowest terms, den > 0: what a float holds
\* when no rounding is modelled.
Ratio(num, den) ==
    LET g == Gcd(Abs(num), Abs(den))
        sgn == IF den < 0 THEN -1 ELSE 1
    IN <<sgn * (num \div g), sgn * (den \div g)>>

\* The greatest common divisor of the entries of a row.
RECURSIVE row_gcd(_)
row_gcd(row) == IF row = <<>> THEN 0 ELSE Gcd(Abs(Head(row)), row_gcd(Tail(row)))

\* A row of a linear system divided by the common divisor of its entries:
\* the equation it stands for is the same.
normalize_row(row) ==
    LET g == row_gcd(row)
    IN IF g = 0 THEN row ELSE [c \in 1..Len(row) |-> row[c] \div g]

\* Mutant: the system solved is A x = b, the identity forgotten.
eye_minus_A_and_b_no_eye(n, A, b) ==
    [i \in 1..n |-> normalize_row(
        [c \in 1..(n + 1) |->
            IF c = n + 1 THEN b[i - 1] * One * One ELSE A[i - 1][c - 1]])]

\* np.eye(len(mdp.states)) - A with b beside it (solve.py line 195): row i
\* is the equation sum_j (eye - A)[i][j] * x[j] = b[i], with the entries of
\* eye - A in 1/(One*One*One) and x and the right-hand side in 1/Scale.
eye_minus_A_and_b(n, A, b) ==
    [i \in 1..n |-> normalize_row(
        [c \in 1..(n + 1) |->
            IF c = n + 1 THEN b[i - 1] * One * One
            ELSE (IF c = i THEN One * One * One ELSE 0) - A[i - 1][c - 1]])]

\* numpy.linalg.LinAlgError("Singular matrix").
LinAlgError == [kind |-> "LinAlgError", value |-> 0]

\* Elimination of column k from every row but the k-th, columns 1..k-1
\* being done: <<>> when no row from the k-th on has a non-zero entry in
\* column k (the matrix is singular).
RECURSIVE gauss_jordan(_, _)
gauss_jordan(rows, k) ==
    IF k > Len(rows) THEN rows
    ELSE LET cand == {r \in k..Len(rows) : rows[r][k] # 0}
         IN IF cand = {} THEN <<>>
            ELSE LET p == CHOOSE r \in cand : \A o \in cand : r <= o
                     sw == [rows EXCEPT ![k] = rows[p], ![p] = rows[k]]
                     piv == sw[k]
                     g(r) == Gcd(Abs(piv[k]), Abs(sw[r][k]))
                 IN gauss_jordan(
                       [r \in 1..Len(sw) |->
                           IF r = k THEN piv
                           ELSE normalize_row([c \in 1..Len(piv) |->
                                   sw[r][c] * (piv[k] \div g(r))
                                      - (sw[r][k] \div g(r)) * piv[c]])],
                       k + 1)

\* np.linalg.solve(eye - A, b): the exact solution x of the system, as an
\* array indexed 0..n-1 of exact numbers in 1/Scale, or LinAlgError when
\* the matrix is singular.
linalg_solve(rows) ==
    LET done == gauss_jordan(rows, 1)
        n == Len(rows)
    IN IF done = <<>> THEN LinAlgError
       ELSE [ix \in 0..(n - 1) |->
                Ratio(done[ix + 1][n + 1], done[ix + 1][ix + 1])]

\* {mdp.i2s(idx): value for idx, value in enumerate(x)} (solve.py lines 196
\* and 226): a later index replaces an earlier one with the same key.
dict_by_i2s(m, x) ==
    LET n == Len(states(m))
        last(key) == CHOOSE ix \in 0..(n - 1) :
                        /\ i2s(m, ix) = key
                        /\ \A o \in 0..(n - 1) : i2s(m, o) = key => o <= ix
    IN [key \in {i2s(m, ix) : ix \in 0..(n - 1)} |-> x[last(key)]]

\* solve.py exact_state_values: what the call returns or raises.
exact_state_values(m, g, policy) ==
    LET Ab == backup_policy_values_operator(m, g, policy)
        x == linalg_solve(eye_minus_A_and_b(Len(states(m)), Ab.A, Ab.b))
    IN IF x = LinAlgError THEN LinAlgError ELSE Return(dict_by_i2s(m, x))

\* `raise optimize.OptimizeWarning(...)` (solve.py lines 222-224).
OptimizeWarning == [kind |-> "OptimizeWarning", value |-> 0]

\* The text of the message of the failure of the root-finder.
eosv_message == "Root finding failed to find a solution"

\* Mutant: the failure is a warning and the call returns what the
\* root-finder was left with.
eosv_failure_warns(m, opt_result) ==
    [result |-> Return(dict_by_i2s(m, opt_result.x)), warnings |-> <<eosv_message>>]

\* solve.py exact_optimum_state_values, lines 221-224: the root-finder
\* reported failure.
eosv_failure(m, opt_result) ==
    [result |-> OptimizeWarning, warnings |-> <<>>]

\* solve.py exact_optimum_state_values, lines 221-226, given what
\* optimize.root returned: the result of the call and the warnings emitted.
exact_optimum_state_values(m, opt_result) ==
    IF ~opt_result.success THEN eosv_failure(m, opt_result)
    ELSE [result |-> Return(dict_by_i2s(m, opt_result.x)), warnings |-> <<>>]

\* What optimize.root (scipy, not part of the repository) may return for
\* the residual v_star - backup_optimal_values(mdp, v_star, gamma) from the
\* initial guess np.zeros: success or failure, with x the initial guess or
\* one or two backups of it.
RootResults(m, g) ==
    LET x0 == np_zeros(Len(states(m)))
        x1 == backup_optimal_values(m, x0, g)
        x2 == backup_optimal_values(m, x1, g)
    IN {[success |-> ok, x |-> x] : ok \in BOOLEAN, x \in {x0, x1, x2}}

\* A, b = backup_policy_values_operator(mdp, gamma, pi)
call_policy_values_operator ==
    /\ pc = "idle"
    /\ call' = [op |-> "backup_policy_values_operator", state |-> <<>>]
    /\ result' = Return(backup_policy_values_operator(mdp, gamma, pol))
    /\ pc' = "done"
    /\ UNCHANGED <<objects, mdp, gamma, fn, pol, tol, maxiter, initial_values,
                   outer_frame, ipe_frame, v, pi, warnings, v_sweep, visited,
                   sweeps>>

\* v = exact_state_values(mdp, gamma, pi)
call_exact_state_values ==
    /\ pc = "idle"
    /\ call' = [op |-> "exact_state_values", state |-> <<>>]
    /\ result' = exact_state_values(mdp, gamma, pol)
    /\ pc' = "done"
    /\ UNCHANGED <<objects, mdp, gamma, fn, pol, tol, maxiter, initial_values,
                   outer_frame, ipe_frame, v, pi, warnings, v_sweep, visited,
                   sweeps>>

\* v_star = exact_optimum_state_values(mdp, gamma), optimize.root
\* returning any of RootResults.
call_exact_optimum_state_values ==
    /\ pc = "idle"
    /\ \E opt_result \in RootResults(mdp, gamma) :
         /\ call' = [op |-> "exact_optimum_state_values", state |-> <<>>,
                     opt_result |-> opt_result]
         /\ result' = exact_optimum_state_values(mdp, opt_result).result
         /\ warnings' = warnings \o exact_optimum_state_values(mdp, opt_result).warnings
    /\ pc' = "done"
    /\ UNCHANGED <<objects, mdp, gamma, fn, pol, tol, maxiter, initial_values,
                   outer_frame, ipe_frame, v, pi, v_sweep, visited, sweeps>>

\* The GamblersProblem instances drawn for the exact solvers.
ExactGamblers == {GamblersProblem(g, 40) : g \in 2..MaxExactGoal}

\* The caller's objects before a direct call of backup_policy_values_
\* operator or of an exact solver.
InitExact ==
    /\ \/ /\ mdp = SimpleMDP
          /\ v \in [StateSet(SimpleMDP) -> SimpleValues]
          /\ pol \in SimplePolicies
       \/ /\ mdp \in ExactGamblers
          /\ v \in GamblerValues(mdp)
          /\ pol \in GamblerPolicies(mdp)
    /\ gamma \in Gammas
    /\ fn = "exact"
    /\ pi = <<>>
    /\ tol = None
    /\ maxiter = 0
    /\ pc = "idle"
    /\ niter = 0 /\ idx = 0 /\ delta_v = 0 /\ policy_stable = TRUE
    /\ e_tol = None /\ e_maxiter = 0
    /\ e_niter = 0 /\ e_idx = 0 /\ e_delta_v = 0
    /\ call = <<>>
    /\ initial_values = <<>>
    /\ warnings = <<>>
    /\ result = NoResult
    /\ v_sweep = v
    /\ pi_sweep = pi
    /\ visited = <<>>
    /\ sweeps = <<>>
    /\ NoObjects

NextExact ==
    \/ call_policy_values_operator
    \/ call_exact_state_values
    \/ call_exact_optimum_state_values

\* One direct call of backup_policy_values_operator or of an exact solver.
SpecExact == InitExact /\ [][NextExact]_vars

\* ---------------------------------------------------------- GridWorld

\* rl/mdp/gridworld.py GridWorld(size, wormholes); wormholes maps a state
\* to <<target state, reward>>.
GridWorld(size, wormholes) ==
    [kind |-> "GridWorld", size |-> size, wormholes |-> wormholes]

\* GridWorld.actions_to_moves
actions_to_moves ==
    [n |-> <<-1, 0>>, e |-> <<0, 1>>, w |-> <<0, -1>>, s |-> <<1, 0>>]

\* GridWorld.actions (a property): the keys of actions_to_moves, in
\* insertion order.
gw_actions == <<"n", "e", "w", "s">>

\* Mutant: the upper edge of the grid is not checked.
state_is_valid_lower_only(m, state) ==
    Min2(state[1], state[2]) >= 0

\* GridWorld.state_is_valid
state_is_valid(m, state) ==
    Min2(state[1], state[2]) >= 0 /\ Max2(state[1], state[2]) < m.size

\* self.actions_to_moves[action] with a key the dict does not have.
KeyError == [kind |-> "KeyError", value |-> 0]

\* GridWorld.next_states_and_rewards: a 1-tuple holding
\* <<next state, reward, probability>>.
gw_next_states_and_rewards(m, state, action) ==
    IF state \in DOMAIN m.wormholes
    THEN Return(<< <<m.wormholes[state][1], m.wormholes[state][2], One>> >>)
    ELSE IF action \notin DOMAIN actions_to_moves
    THEN KeyError
    ELSE LET move == actions_to_moves[action]
             next_state == <<state[1] + move[1], state[2] + move[2]>>
         IN IF state_is_valid(m, next_state)
            THEN Return(<< <<next_state, 0, One>> >>)
            ELSE Return(<< <<state, -Scale, One>> >>)

\* ----------------------------------------------------- JacksCarRental

\* scipy.stats.poisson.pmf(k, mu) for k = 0, 1, 2, ..., in hundredths.
PoissonPmf(mu) ==
    CASE mu = 0 -> <<100, 0, 0, 0, 0>>
      [] mu = 1 -> <<37, 37, 18, 6, 2>>
      [] mu = 2 -> <<14, 27, 27, 18, 9>>

\* jackscarrental.py poisson_table(max_k, mu)
poisson_table(max_k, mu) == SubSeq(PoissonPmf(mu), 1, max_k + 1)

\* JacksCarRental.__init__; the rewards are in 1/Scale.  The two locations
\* are 0 and 1 in the code, positions 1 and 2 of the tuples here.
JacksCarRental(capacity, exp_demand_per_location, exp_returns_per_location, reward_for_rental, reward_per_car_for_moving_cars) ==
    [kind |-> "JacksCarRental",
     capacity |-> capacity,
     reward_for_rental |-> reward_for_rental,
     reward_per_car_for_moving_cars |-> reward_per_car_for_moving_cars,
     p_hire |-> <<poisson_table(capacity, exp_demand_per_location[1]),
                  poisson_table(capacity, exp_demand_per_location[2])>>,
     p_ret  |-> <<poisson_table(capacity, exp_returns_per_location[1]),
                  poisson_table(capacity, exp_returns_per_location[2])>>]

\* Mutant: the cars are moved from the second location to the first.
counts_after_moving_cars_reversed(initial_counts, move) ==
    <<initial_counts[1] + move, initial_counts[2] - move>>

\* jackscarrental.py counts_after_moving_cars
counts_after_moving_cars(initial_counts, move) ==
    <<initial_counts[1] - move, initial_counts[2] + move>>

\* A failed assert statement.
AssertionError == [kind |-> "AssertionError", value |-> 0]

\* A float that is nan (0.0 / 0.0 on numpy floats), against Some(x).
NaN == <<>>

\* np.sum(table[:k])
sum_before(table, k) == SumOfSeq(SubSeq(table, 1, k))

\* The probability of cars_hired cars being rented out, in 1/One: the
\* table's entry, and the whole remaining tail when the branch runs out
\* of cars.
hire_prob(m, branch, cars_morning, cars_hired) ==
    IF cars_hired < cars_morning
    THEN m.p_hire[branch + 1][cars_hired + 1]
    ELSE One - sum_before(m.p_hire[branch + 1], cars_hired)

\* Mutant: the returns that would overfill the branch are lost.
return_prob_table_only(m, branch, cars_evening, cars_returned) ==
    m.p_ret[branch + 1][cars_returned + 1]

\* The probability of cars_returned cars being returned, in 1/One: the
\* table's entry, and the whole remaining tail when the branch ends full.
return_prob(m, branch, cars_evening, cars_returned) ==
    IF cars_evening < m.capacity
    THEN m.p_ret[branch + 1][cars_returned + 1]
    ELSE One - sum_before(m.p_ret[branch + 1], cars_returned)

\* Mutant: the division is not guarded.
btp_total_is_zero_never(total_prob) == FALSE

\* `if total_prob == 0.0`
btp_total_is_zero(total_prob) == total_prob = 0

\* JacksCarRental.branch_transition_prob_and_exp_rentals: <<total_prob,
\* exp_r>> with total_prob in 1/One^2 and exp_r a float in 1/Scale.
branch_transition_prob_and_exp_rentals(m, branch, cars_morning, cars_evening) ==
    LET rentals == RangeSeq(Max2(0, cars_morning - cars_evening), cars_morning)
        cars_returned(cars_hired) == cars_evening - cars_morning + cars_hired
        asserts_hold ==
            \A k \in 1..Len(rentals) :
                /\ rentals[k] < Len(m.p_hire[branch + 1])
                /\ cars_returned(rentals[k]) < Len(m.p_ret[branch + 1])
                /\ cars_returned(rentals[k]) >= 0
        probs == [k \in 1..Len(rentals) |->
                     hire_prob(m, branch, cars_morning, rentals[k])
                       * return_prob(m, branch, cars_evening,
                                     cars_returned(rentals[k]))]
        total_prob == SumOfSeq(probs)
        weighted == SumOfSeq([k \in 1..Len(rentals) |-> probs[k] * rentals[k]])
    IN IF ~asserts_hold THEN AssertionError
       ELSE IF btp_total_is_zero(total_prob) THEN Return(<<0, Some(0)>>)
       ELSE IF total_prob = 0 THEN Return(<<0, NaN>>)
       ELSE Return(<<total_prob, Some((weighted * Scale) \div total_prob)>>)

\* JacksCarRental.evening_states_and_exp_rentals: per state of the MDP
\* <<evening counts, expected rentals in 1/Scale, probability in 1/One^4>>
\* (the cache only saves recomputing the same list).
evening_states_and_exp_rentals(m, morning_counts) ==
    LET branch(b, next_state) ==
            branch_transition_prob_and_exp_rentals(
                m, b, morning_counts[b + 1], next_state[b + 1])
        nan(x) == x.kind = "return" /\ x.value[2] = NaN
        entry(next_state) ==
            LET b0 == branch(0, next_state)
                b1 == branch(1, next_state)
            IN IF b0.kind # "return" THEN b0
               ELSE IF b1.kind # "return" THEN b1
               ELSE Return(<<next_state,
                             IF nan(b0) \/ nan(b1) THEN NaN
                             ELSE Some(b0.value[2][1] + b1.value[2][1]),
                             b0.value[1] * b1.value[1]>>)
        entries == [k \in 1..Len(states(m)) |-> entry(states(m)[k])]
    IN IF \E k \in 1..Len(entries) : entries[k].kind # "return"
       THEN entries[CHOOSE k \in 1..Len(entries) :
                       /\ entries[k].kind # "return"
                       /\ \A j \in 1..(k - 1) : entries[j].kind = "return"]
       ELSE Return([k \in 1..Len(entries) |-> entries[k].value])

\* JacksCarRental.next_states_and_rewards: a list of <<next state, reward
\* in 1/Scale, probability in 1/One^4>>.
jcr_next_states_and_rewards(m, state, action) ==
    LET next_morning_counts == counts_after_moving_cars(state, action)
        next_evening_counts_and_rentals ==
            evening_states_and_exp_rentals(m, next_morning_counts)
        action_reward == Abs(action) * m.reward_per_car_for_moving_cars
        rows == next_evening_counts_and_rentals.value
    IN IF Max2(next_morning_counts[1], next_morning_counts[2]) > m.capacity
       THEN AssertionError
       ELSE IF Min2(next_morning_counts[1], next_morning_counts[2]) < 0
       THEN AssertionError
       ELSE IF next_evening_counts_and_rentals.kind # "return"
       THEN next_evening_counts_and_rentals
       ELSE Return([k \in 1..Len(rows) |->
                <<rows[k][1],
                  IF rows[k][2] = NaN THEN NaN
                  ELSE Some((rows[k][2][1] * m.reward_for_rental) \div Scale
                              + action_reward),
                  rows[k][3]>>])

\* ------------------------------------ the MDP methods, called directly

\* The GamblersProblem instances drawn: every goal up to the bound, the
\* p_h of the tests (0.4) and 0.25.
MethodGamblers == {GamblersProblem(g, p) : g \in 1..MaxGoal, p \in {25, 40}}

\* The wormholes drawn for a GridWorld of a size: none, one from (0, 1) to
\* the bottom of its column with reward 10 (as in tests/mdp/conftest.py),
\* and that one with a second from (0, 0) with reward 5.
GridWormholes(size) ==
    {<<>>} \cup
    (IF size < 2 THEN {}
     ELSE {[st \in {<<0, 1>>} |-> <<<<size - 1, 1>>, 10 * Scale>>],
           [st \in {<<0, 0>>, <<0, 1>>} |->
               IF st = <<0, 1>> THEN <<<<size - 1, 1>>, 10 * Scale>>
               ELSE <<<<size - 1, 0>>, 5 * Scale>>]})

MethodGridWorlds ==
    UNION {{GridWorld(size, wh) : wh \in GridWormholes(size)} : size \in 1..MaxSize}

\* The JacksCarRental instances drawn: the means of tests/mdp/
\* test_jackscarrental.py and means of zero, the rewards of the problem
\* as originally stated (10 and -2).
MethodCarRentals ==
    {JacksCarRental(c, d, r, 10 * Scale, -2 * Scale) :
        c \in 1..MaxCapacity,
        d \in {<<1, 2>>, <<0, 1>>},
        r \in {<<1, 1>>, <<0, 0>>}}

\* The actions handed to next_states_and_rewards: the legal ones and some
\* that are not.
ActionsTried(m, state) ==
    CASE m.kind = "SimpleMDP" -> SeqToSet(SimpleActions)
      [] m.kind = "GamblersProblem" -> 0..(m.goal + 1)
      [] m.kind = "GridWorld" -> SeqToSet(gw_actions) \cup {"x"}
      [] m.kind = "JacksCarRental" -> (-(m.capacity + 1))..(m.capacity + 1)

\* mdp.actions(state), or mdp.actions for GridWorld.
call_actions ==
    /\ pc = "idle"
    /\ \E state \in StateSet(mdp) :
         /\ call' = [op |-> "actions", args |-> <<state>>]
         /\ result' = Return(IF mdp.kind = "GridWorld" THEN gw_actions
                             ELSE actions(mdp, state))
    /\ pc' = "done"
    /\ UNCHANGED <<objects, mdp, gamma, fn, pol, tol, maxiter, initial_values,
                   outer_frame, ipe_frame, v, pi, warnings, v_sweep, visited,
                   sweeps>>

\* mdp.s2i(state)
call_s2i ==
    /\ pc = "idle"
    /\ \E state \in StateSet(mdp) :
         /\ call' = [op |-> "s2i", args |-> <<state>>]
         /\ result' = Return(s2i(mdp, state))
    /\ pc' = "done"
    /\ UNCHANGED <<objects, mdp, gamma, fn, pol, tol, maxiter, initial_values,
                   outer_frame, ipe_frame, v, pi, warnings, v_sweep, visited,
                   sweeps>>

\* mdp.i2s(index)
call_i2s ==
    /\ pc = "idle"
    /\ \E index \in 0..(Len(states(mdp)) - 1) :
         /\ call' = [op |-> "i2s", args |-> <<index>>]
         /\ result' = Return(i2s(mdp, index))
    /\ pc' = "done"
    /\ UNCHANGED <<objects, mdp, gamma, fn, pol, tol, maxiter, initial_values,
                   outer_frame, ipe_frame, v, pi, warnings, v_sweep, visited,
                   sweeps>>

\* mdp.next_states_and_rewards(state, action)
call_next_states_and_rewards ==
    /\ pc = "idle"
    /\ \E state \in StateSet(mdp) : \E action \in ActionsTried(mdp, state) :
         /\ call' = [op |-> "next_states_and_rewards",
                     args |-> <<state, action>>]
         /\ result' =
              CASE mdp.kind = "GridWorld" ->
                      gw_next_states_and_rewards(mdp, state, action)
                [] mdp.kind = "JacksCarRental" ->
                      jcr_next_states_and_rewards(mdp, state, action)
                [] OTHER -> Return(next_states_and_rewards(mdp, state, action))
    /\ pc' = "done"
    /\ UNCHANGED <<objects, mdp, gamma, fn, pol, tol, maxiter, initial_values,
                   outer_frame, ipe_frame, v, pi, warnings, v_sweep, visited,
                   sweeps>>

\* mdp.branch_transition_prob_and_exp_rentals(branch, cars_morning,
\* cars_evening) on a JacksCarRental, for car counts a location can hold.
call_branch_transition_prob_and_exp_rentals ==
    /\ pc = "idle"
    /\ mdp.kind = "JacksCarRental"
    /\ \E branch \in {0, 1} : \E cars_morning, cars_evening \in 0..mdp.capacity :
         /\ call' = [op |-> "branch_transition_prob_and_exp_rentals",
                     args |-> <<branch, cars_morning, cars_evening>>]
         /\ result' = branch_transition_prob_and_exp_rentals(
                          mdp, branch, cars_morning, cars_evening)
    /\ pc' = "done"
    /\ UNCHANGED <<objects, mdp, gamma, fn, pol, tol, maxiter, initial_values,
                   outer_frame, ipe_frame, v, pi, warnings, v_sweep, visited,
                   sweeps>>

\* A constructed MDP before one of its methods is called.
InitMDP ==
    /\ \/ mdp = SimpleMDP
       \/ mdp \in MethodGamblers
       \/ mdp \in MethodGridWorlds
       \/ mdp \in MethodCarRentals
    /\ gamma = 0
    /\ fn = "method"
    /\ v = <<>>
    /\ pi = <<>>
    /\ pol = <<>>
    /\ tol = None
    /\ maxiter = 0
    /\ pc = "idle"
    /\ niter = 0 /\ idx = 0 /\ delta_v = 0 /\ policy_stable = TRUE
    /\ e_tol = None /\ e_maxiter = 0
    /\ e_niter = 0 /\ e_idx = 0 /\ e_delta_v = 0
    /\ call = <<>>
    /\ initial_values = <<>>
    /\ warnings = <<>>
    /\ result = NoResult
    /\ v_sweep = v
    /\ pi_sweep = pi
    /\ visited = <<>>
    /\ sweeps = <<>>
    /\ NoObjects

NextMDP ==
    \/ call_actions
    \/ call_s2i
    \/ call_i2s
    \/ call_next_states_and_rewards
    \/ call_branch_transition_prob_and_exp_rentals

\* One call of a method of a FiniteMDP.
SpecMDP == InitMDP /\ [][NextMDP]_vars

\* -------------------------------------------------------------- Agent

\* No solver is called: the agent, the environment and the simulator do
\* not use the MDP solvers.
NoSolverCall ==
    /\ mdp = <<>> /\ gamma = 0 /\ fn = "none"
    /\ v = <<>> /\ pi = <<>> /\ pol = <<>>
    /\ tol = None /\ maxiter = 0 /\ pc = "idle"
    /\ niter = 0 /\ idx = 0 /\ delta_v = 0 /\ policy_stable = TRUE
    /\ e_tol = None /\ e_maxiter = 0
    /\ e_niter = 0 /\ e_idx = 0 /\ e_delta_v = 0
    /\ call = <<>> /\ initial_values = <<>> /\ warnings = <<>>
    /\ result = NoResult
    /\ v_sweep = <<>> /\ pi_sweep = <<>> /\ visited = <<>> /\ sweeps = <<>>

\* Agent.__init__: neither last_state nor last_action exists yet.  An
\* attribute is <<>> while it does not exist and <<value>> once set.
NewAgent == [last_state |-> <<>>, last_action |-> <<>>]

\* hasattr(self, "last_state") or hasattr(self, "last_action")
has_last(a) == a.last_state # <<>> \/ a.last_action # <<>>

RuntimeError == [kind |-> "RuntimeError", value |-> 0]

\* An exception raised by the policy or its action selector, which the
\* agent lets through.
PolicyError == [kind |-> "PolicyError", value |-> 0]

\* Agent.action(state); selected is what self.policy(state)() does: it
\* returns an action or raises.  Gives the agent afterwards and the
\* call's outcome.
Agent_action(a, state, selected) ==
    IF has_last(a)
    THEN [agent |-> a, outcome |-> RuntimeError, updates |-> <<>>]
    ELSE IF selected.kind # "return"
    THEN [agent |-> a, outcome |-> selected, updates |-> <<>>]
    ELSE [agent   |-> [last_state |-> <<state>>, last_action |-> <<selected.value>>],
          outcome |-> Return(selected.value),
          updates |-> <<>>]

\* Mutant: the two attributes are not deleted after the update.
Agent_reward_keeps_fields(a, reward, updated) ==
    IF ~has_last(a)
    THEN [agent |-> a, outcome |-> RuntimeError, updates |-> <<>>]
    ELSE [agent |-> a,
          outcome |-> updated,
          updates |-> << <<a.last_state[1], a.last_action[1], reward>> >>]

\* Agent.reward(reward); updated is what self.policy.update(...) does: it
\* returns None or raises.  updates lists the calls of policy.update made.
Agent_reward(a, reward, updated) ==
    IF ~has_last(a)
    THEN [agent |-> a, outcome |-> RuntimeError, updates |-> <<>>]
    ELSE IF updated.kind # "return"
    THEN [agent |-> a,
          outcome |-> updated,
          updates |-> << <<a.last_state[1], a.last_action[1], reward>> >>]
    ELSE [agent   |-> NewAgent,
          outcome |-> Return(<<>>),
          updates |-> << <<a.last_state[1], a.last_action[1], reward>> >>]

\* The state signals, actions and rewards the tests pass (test_agent.py).
AgentStates == {1, 2}

AgentActions == {0, 1}

AgentRewards == {0, 1}

\* What a call of the policy can do: return one of the values, or raise.
PolicyOutcomes(values) == {Return(x) : x \in values} \cup {PolicyError}

\* agent.action(state), called by a test.
call_agent_action ==
    /\ Len(events) < MaxCalls
    /\ \E state \in AgentStates : \E selected \in PolicyOutcomes(AgentActions) :
         LET r == Agent_action(agent, state, selected)
         IN /\ agent' = r.agent
            /\ events' = Append(events,
                  [op |-> "action", arg |-> state, before |-> agent,
                   outcome |-> r.outcome, updates |-> r.updates])
    /\ UNCHANGED <<solver_vars, environment, simulator>>

\* agent.reward(reward), called by a test.
call_agent_reward ==
    /\ Len(events) < MaxCalls
    /\ \E reward \in AgentRewards : \E updated \in PolicyOutcomes({<<>>}) :
         LET r == Agent_reward(agent, reward, updated)
         IN /\ agent' = r.agent
            /\ events' = Append(events,
                  [op |-> "reward", arg |-> reward, before |-> agent,
                   outcome |-> r.outcome, updates |-> r.updates])
    /\ UNCHANGED <<solver_vars, environment, simulator>>

\* agent = Agent(policy)
InitAgent ==
    /\ NoSolverCall
    /\ agent = NewAgent
    /\ environment = <<>>
    /\ simulator = <<>>
    /\ events = <<>>

NextAgent ==
    \/ call_agent_action
    \/ call_agent_reward

\* An Agent driven directly, as the tests of test_agent.py do.
SpecAgent == InitAgent /\ [][NextAgent]_vars

\* ---------------------------------------------------------- Blackjack

\* Blackjack.HIT and Blackjack.STICK
HIT == 1

STICK == 0

\* BJState(current_count, dealer_card, usable_ace)
BJState(current_count, dealer_card, usable_ace) ==
    [current_count |-> current_count, dealer_card |-> dealer_card,
     usable_ace |-> usable_ace]

\* BJState.is_valid
is_valid(st) ==
    (12 <= st.current_count /\ st.current_count <= 20)
        /\ (2 <= st.dealer_card /\ st.dealer_card <= 11)

\* The cards next(self.deck) can give: InfiniteDeck._cards, or a
\* RepeatingDeck of such cards.
Cards == 1..10

\* Blackjack.update_count: <<updated_count, usable_ace>>
update_count(initial_count, usable_ace, new_card) ==
    LET updated_count == initial_count + new_card
    IN IF updated_count > 21 /\ usable_ace
       THEN <<updated_count - 10, FALSE>>
       ELSE IF updated_count < 12 /\ new_card = 1
       THEN <<updated_count + 10, TRUE>>
       ELSE <<updated_count, usable_ace>>

ValueError == [kind |-> "ValueError", value |-> 0]

\* Blackjack.__init__ and reset: _state is a copy of the starting state.
\* pc is where a call of act stands ("idle": none made yet, "stick": in
\* the dealer's loop, "returned"); action and before are the call's
\* argument and the _state it found, n_drawn the cards it has drawn.
Blackjack(starting_state) ==
    [state |-> starting_state, pc |-> "idle", action |-> 0,
     before |-> starting_state, dealer_usable_ace |-> FALSE, n_drawn |-> 0,
     outcome |-> NoResult]

\* `action == self.HIT and self._state.current_count <= 21`
hit_is_played(env, action) == action = HIT /\ env.state.current_count <= 21

\* Blackjack.act, from its entry to the return of a HIT, to the raise, or
\* to the head of the dealer's loop; next_card is what next(self.deck)
\* would give.
Blackjack_act(env, action, next_card) ==
    LET entered == [env EXCEPT !.action = action, !.before = env.state,
                               !.n_drawn = 0, !.outcome = NoResult]
    IN IF hit_is_played(env, action)
       THEN LET u == update_count(env.state.current_count,
                                  env.state.usable_ace, next_card)
            IN [entered EXCEPT
                  !.state = BJState(u[1], env.state.dealer_card, u[2]),
                  !.n_drawn = 1,
                  !.pc = "returned",
                  !.outcome = Return(IF u[1] > 21 THEN -1 ELSE 0)]
       ELSE IF action = STICK
       THEN [entered EXCEPT !.pc = "stick",
                            !.dealer_usable_ace = (env.state.dealer_card = 1)]
       ELSE [entered EXCEPT !.pc = "returned", !.outcome = ValueError]

\* One turn of `while self._state.dealer_card < 17`.
Blackjack_dealer_draws(env, next_card) ==
    LET u == update_count(env.state.dealer_card, env.dealer_usable_ace, next_card)
    IN [env EXCEPT !.state = BJState(env.state.current_count, u[1],
                                     env.state.usable_ace),
                   !.dealer_usable_ace = u[2],
                   !.n_drawn = env.n_drawn + 1]

\* Mutant: the dealer wins a draw.
stick_reward_dealer_wins_draws(st) ==
    IF st.dealer_card > 21 THEN 1
    ELSE IF st.current_count - st.dealer_card > 0 THEN 1
    ELSE -1

\* The reward of a STICK once the dealer has stopped drawing.
stick_reward(st) ==
    IF st.dealer_card > 21 THEN 1
    ELSE LET difference == st.current_count - st.dealer_card
         IN IF difference > 0 THEN 1
            ELSE IF difference < 0 THEN -1
            ELSE 0

\* Blackjack.act after the dealer's loop.
Blackjack_stick_returns(env) ==
    [env EXCEPT !.pc = "returned", !.outcome = Return(stick_reward(env.state))]

\* Blackjack.done
done(env) == ~is_valid(env.state)

\* The starting states drawn: those of test_blackjack.py (counts 12 to 21,
\* dealer cards 8 to 10) and the edges of BJState.is_valid.
StartingStates ==
    {BJState(c, d, u) : c \in {11, 12, 17, 20, 21}, d \in {1, 2, 8, 10, 11},
                        u \in BOOLEAN}

\* The actions handed to act: HIT, STICK and a number that is neither.
ActionsGiven == {HIT, STICK, 2}

\* bj.act(action), called by a test; a HIT draws its card here.
bj_call_act ==
    /\ environment.pc \in {"idle", "returned"}
    /\ \E action \in ActionsGiven : \E next_card \in Cards :
          environment' = Blackjack_act(environment, action, next_card)
    /\ UNCHANGED <<solver_vars, agent, simulator, events>>

\* The dealer draws a card.
bj_dealer_draws ==
    /\ environment.pc = "stick"
    /\ environment.state.dealer_card < 17
    /\ \E next_card \in Cards :
          environment' = Blackjack_dealer_draws(environment, next_card)
    /\ UNCHANGED <<solver_vars, agent, simulator, events>>

\* The dealer sticks and act returns.
bj_stick_returns ==
    /\ environment.pc = "stick"
    /\ ~(environment.state.dealer_card < 17)
    /\ environment' = Blackjack_stick_returns(environment)
    /\ UNCHANGED <<solver_vars, agent, simulator, events>>

\* bj = Blackjack(starting_state, deck)
InitBlackjack ==
    /\ NoSolverCall
    /\ agent = <<>>
    /\ environment \in {Blackjack(st) : st \in StartingStates}
    /\ simulator = <<>>
    /\ events = <<>>

NextBlackjack ==
    \/ bj_call_act
    \/ bj_dealer_draws
    \/ bj_stick_returns

\* A Blackjack environment whose act is called again and again.  A call
\* that has begun runs on: the dealer's loop is not abandoned.
SpecBlackjack ==
    InitBlackjack /\ [][NextBlackjack]_vars
        /\ WF_vars(bj_dealer_draws) /\ WF_vars(bj_stick_returns)

\* ------------------------------------------ SingleAgentWaitingSimulator

\* History.__init__
History == [states |-> <<>>, actions |-> <<>>, rewards |-> <<>>]

\* History.add(state, action, reward)
History_add(h, state, action, reward) ==
    [states  |-> Append(h.states, state),
     actions |-> Append(h.actions, action),
     rewards |-> Append(h.rewards, reward)]

\* SingleAgentWaitingSimulator.t
sim_t(sim) == Len(sim.history.states)

\* What Blackjack.observe returns: the environment's _state object itself,
\* not a copy of it.
StateObject == "_state"

\* SingleAgentWaitingSimulator.__init__ with n_callbacks callbacks.  pc,
\* n_steps, remaining, state, action, reward and cb are the frame of a run
\* call (remaining: the turns range(n_steps) has left; cb: the callbacks
\* called in this step); runs, steps, steps_before and outcome observe the
\* calls of run made, the steps completed, those completed when the last
\* run began, and how the last run ended.
SingleAgentWaitingSimulator(n_callbacks) ==
    [history |-> History, n_callbacks |-> n_callbacks,
     pc |-> "idle", n_steps |-> 0, remaining |-> 0, state |-> <<>>,
     action |-> <<>>, reward |-> <<>>, cb |-> 0,
     runs |-> 0, steps |-> 0, steps_before |-> 0, outcome |-> NoResult]

\* Mutant: the step is recorded in the history before the agent is told
\* its reward.
StepOrder_add_first == <<"observe", "action", "act", "add", "reward", "callbacks">>

\* The statements of the body of run's for loop, in the order written,
\* before the read of environment.done.
StepOrder == <<"observe", "action", "act", "reward", "add", "callbacks">>

\* The statement that follows a statement of the loop body.
after(statement) == StepOrder[IndexOf(StepOrder, statement) + 2]

\* A run call ends: it returns None or lets an exception through.
run_ends(sim, outcome) == [sim EXCEPT !.pc = "idle", !.outcome = outcome]

\* sim.run(n_steps), up to the first turn of the for loop.
sim_call_run ==
    /\ simulator.pc = "idle"
    /\ simulator.runs < MaxRuns
    /\ \E n_steps \in 0..MaxSteps :
         LET called == [simulator EXCEPT !.n_steps = n_steps, !.remaining = n_steps,
                                         !.runs = @ + 1, !.steps_before = simulator.steps,
                                         !.outcome = NoResult]
         IN simulator' =
               IF n_steps = 0 THEN run_ends(called, Return(<<>>))
               ELSE [called EXCEPT !.pc = StepOrder[1], !.remaining = n_steps - 1]
    /\ events' = <<>>
    /\ UNCHANGED <<solver_vars, agent, environment>>

\* state = self.environment.observe()
sim_observe ==
    /\ simulator.pc = "observe"
    /\ simulator' = [simulator EXCEPT !.pc = after("observe"), !.state = StateObject,
                                      !.cb = 0]
    /\ events' = << <<"observe", 0>> >>
    /\ UNCHANGED <<solver_vars, agent, environment>>

\* action = self.agent.action(state); the policy picks HIT or STICK.
sim_action ==
    /\ simulator.pc = "action"
    /\ \E selected \in {Return(HIT), Return(STICK)} :
         LET r == Agent_action(agent, simulator.state, selected)
         IN /\ agent' = r.agent
            /\ simulator' =
                 IF r.outcome.kind = "return"
                 THEN [simulator EXCEPT !.pc = after("action"), !.action = r.outcome.value]
                 ELSE run_ends(simulator, r.outcome)
    /\ events' = Append(events, <<"action", 0>>)
    /\ UNCHANGED <<solver_vars, environment>>

\* The cards the deck deals the player in the simulated games: an ace, a
\* low card and a ten.
SimulatorCards == {1, 5, 10}

\* reward = self.environment.act(action): the call is made; a HIT or an
\* invalid action is over at once, a STICK enters the dealer's loop.
sim_act ==
    /\ simulator.pc = "act"
    /\ \E next_card \in SimulatorCards :
         LET env == Blackjack_act(environment, simulator.action, next_card)
         IN /\ environment' = env
            /\ simulator' =
                 IF env.pc = "stick" THEN [simulator EXCEPT !.pc = "acting"]
                 ELSE IF env.outcome.kind = "return"
                 THEN [simulator EXCEPT !.pc = after("act"),
                                        !.reward = env.outcome.value]
                 ELSE run_ends(simulator, env.outcome)
    /\ events' = Append(events, <<"act", 0>>)
    /\ UNCHANGED <<solver_vars, agent>>

\* reward = self.environment.act(action): a STICK returns.
sim_act_returns ==
    /\ simulator.pc = "acting"
    /\ environment.pc = "returned"
    /\ simulator' = [simulator EXCEPT !.pc = after("act"),
                                      !.reward = environment.outcome.value]
    /\ UNCHANGED <<solver_vars, agent, environment, events>>

\* self.agent.reward(reward); the policy's update is a no-op or a learning
\* step that returns.
sim_reward ==
    /\ simulator.pc = "reward"
    /\ LET r == Agent_reward(agent, simulator.reward, Return(<<>>))
       IN /\ agent' = r.agent
          /\ simulator' =
               IF r.outcome.kind = "return"
               THEN [simulator EXCEPT !.pc = after("reward")]
               ELSE run_ends(simulator, r.outcome)
    /\ events' = Append(events, <<"reward", 0>>)
    /\ UNCHANGED <<solver_vars, environment>>

\* self.history.add(state, action, reward)
sim_history_add ==
    /\ simulator.pc = "add"
    /\ simulator' =
         [simulator EXCEPT
            !.history = History_add(simulator.history, simulator.state,
                                    simulator.action, simulator.reward),
            !.pc = after("add")]
    /\ events' = Append(events, <<"add", 0>>)
    /\ UNCHANGED <<solver_vars, agent, environment>>

\* for callback in self.callbacks: callback(self)
sim_callback ==
    /\ simulator.pc = "callbacks"
    /\ simulator.cb < simulator.n_callbacks
    /\ simulator' = [simulator EXCEPT !.cb = @ + 1]
    /\ events' = Append(events, <<"callback", simulator.cb + 1>>)
    /\ UNCHANGED <<solver_vars, agent, environment>>

\* Mutant: the loop runs on whatever the environment says.
step_breaks_never(env) == FALSE

\* `if self.environment.done: break`
step_breaks(env) == done(env)

\* The end of a step: environment.done is read; the loop breaks, takes
\* its next turn, or has none left.
sim_done ==
    /\ simulator.pc = "callbacks"
    /\ ~(simulator.cb < simulator.n_callbacks)
    /\ simulator' =
         LET stepped == [simulator EXCEPT !.steps = @ + 1]
         IN IF step_breaks(environment) \/ simulator.remaining = 0
            THEN run_ends(stepped, Return(<<>>))
            ELSE [stepped EXCEPT !.pc = StepOrder[1], !.remaining = @ - 1]
    /\ events' = Append(events, <<"done", 0>>)
    /\ UNCHANGED <<solver_vars, agent, environment>>

\* The Blackjack games the simulator is run on.
SimulatorStartingStates ==
    {BJState(12, 2, FALSE), BJState(13, 1, TRUE), BJState(20, 10, FALSE)}

\* sim = SingleAgentWaitingSimulator(Blackjack(...), Agent(policy), callbacks)
InitSimulator ==
    /\ NoSolverCall
    /\ agent = NewAgent
    /\ environment \in {Blackjack(st) : st \in SimulatorStartingStates}
    /\ simulator \in {SingleAgentWaitingSimulator(k) : k \in 0..MaxCallbacks}
    /\ events = <<>>

NextSimulator ==
    \/ sim_call_run
    \/ sim_observe
    \/ sim_action
    \/ sim_act
    \/ (simulator.pc = "acting" /\ bj_dealer_draws)
    \/ (simulator.pc = "acting" /\ bj_stick_returns)
    \/ sim_act_returns
    \/ sim_reward
    \/ sim_history_add
    \/ sim_callback
    \/ sim_done

\* A simulator of an Agent playing Blackjack, run a few times.
SpecSimulator == InitSimulator /\ [][NextSimulator]_vars

\* ------------------------------------------------ the sweeping solvers

\* The caller's objects before a call of iterative_policy_evaluation or of
\* value_iteration.
InitSweeps == InitIPE \/ InitVI

NextSweeps ==
    \/ ipe_next_sweep
    \/ ipe_backup
    \/ ipe_stopping_test
    \/ ipe_exhausted
    \/ ipe_return
    \/ vi_next_sweep
    \/ vi_backup
    \/ vi_stopping_test
    \/ vi_exhausted
    \/ vi_return

\* A call of one of the two solvers that sweep v in place.
SpecSweeps == InitSweeps /\ [][NextSweeps]_vars

\* The caller's objects before a call of one of the three iterative
\* solvers.
InitSolvers == InitIPE \/ InitPI \/ InitVI

NextSolvers ==
    \/ ipe_next_sweep
    \/ ipe_backup
    \/ ipe_stopping_test
    \/ ipe_exhausted
    \/ ipe_return
    \/ pi_next_sweep
    \/ pi_improve
    \/ pi_stable_break
    \/ pi_call_evaluation
    \/ ipe_return_to_pi
    \/ pi_exhausted
    \/ pi_return
    \/ vi_next_sweep
    \/ vi_backup
    \/ vi_stopping_test
    \/ vi_exhausted
    \/ vi_return

\* A call of iterative_policy_evaluation, policy_iteration or
\* value_iteration.
SpecSolvers == InitSolvers /\ [][NextSolvers]_vars

\* A call of policy_iteration that is left to run: the interpreter goes on
\* to the next statement as long as there is one.
SpecPIRuns == InitPI /\ [][NextPI]_vars /\ WF_vars(NextPI)

\* ------------------------------------------------------------ claims

Done == pc = "done"

\* The sweeps whose biggest change was strictly below t.
Hits(t) == {k \in 1..Len(sweeps) : sweeps[k].delta < t}

FirstOf(S) == CHOOSE k \in S : \A j \in S : k <= j

AllSweepsFull == \A k \in 1..Len(sweeps) : sweeps[k].full

\* C1: iterative_policy_evaluation called with tol=None and maxiter=N >= 1
\* runs exactly N full sweeps over mdp.states (never more while running),
\* returns N and emits no warning, whatever v holds.
C1_TolNoneRunsMaxiterSweeps ==
    (fn = "iterative_policy_evaluation" /\ tol = None /\ maxiter >= 1) =>
        /\ Len(sweeps) <= maxiter
        /\ AllSweepsFull
        /\ warnings = <<>>
        /\ Done => /\ Len(sweeps) = maxiter
                   /\ result = Return(maxiter)

\* C1 witness: a finished call with tol=None and maxiter >= 2 in which one
\* sweep changed nothing and the sweeps after it were still run.
C1_Witness ==
    /\ fn = "iterative_policy_evaluation" /\ tol = None /\ maxiter >= 2
    /\ Done
    /\ Len(sweeps) = maxiter
    /\ sweeps[1].delta = 0
    /\ result = Return(maxiter)

\* C2: with a non-None tol, every stopping test of
\* iterative_policy_evaluation is evaluated after a sweep that backed up
\* every state of mdp.states once, and when some sweep's biggest change is
\* strictly below tol the call returns the number k of the first such
\* sweep, having run exactly k sweeps and emitted no warning; it stops
\* before maxiter sweeps only in that case.
C2_ReturnsFirstSweepBelowTol ==
    (fn = "iterative_policy_evaluation" /\ tol # None) =>
        /\ AllSweepsFull
        /\ (Done /\ Hits(tol[1]) # {}) =>
              /\ result = Return(FirstOf(Hits(tol[1])))
              /\ Len(sweeps) = FirstOf(Hits(tol[1]))
              /\ warnings = <<>>
        /\ (Done /\ Len(sweeps) < maxiter) => Hits(tol[1]) # {}

\* C2 witness: the tolerance is first met by the last allowed sweep
\* (k = maxiter >= 2), after sweeps that did change v.
C2_Witness ==
    /\ fn = "iterative_policy_evaluation" /\ tol # None /\ maxiter >= 2
    /\ Done
    /\ Hits(tol[1]) = {maxiter}
    /\ sweeps[1].delta > 0
    /\ result = Return(maxiter)
    /\ warnings = <<>>

\* C3: when tol is not None and none of the maxiter sweeps of
\* iterative_policy_evaluation has a biggest change below tol, the call
\* does not raise: it returns maxiter, has emitted exactly one warning, and
\* v holds the values the last sweep produced.
C3_NoConvergenceWarnsAndReturns ==
    (/\ fn = "iterative_policy_evaluation" /\ tol # None
     /\ Done /\ Len(sweeps) = maxiter /\ Hits(tol[1]) = {}) =>
        /\ result = Return(maxiter)
        /\ warnings = <<ipe_warning>>
        /\ maxiter >= 1 => v = sweeps[maxiter].v

\* C3 restricted to maxiter >= 1, where the loop variable is bound.
C3_HoldsForPositiveMaxiter ==
    maxiter >= 1 => C3_NoConvergenceWarnsAndReturns

\* A call as in C3 with maxiter >= 2 whose every sweep changed v by tol or
\* more, ended with the warning and maxiter returned.
C3_PositiveCase ==
    /\ fn = "iterative_policy_evaluation" /\ tol # None /\ maxiter >= 2
    /\ Done /\ Len(sweeps) = maxiter /\ Hits(tol[1]) = {}
    /\ tol[1] > 0
    /\ result = Return(maxiter)
    /\ warnings = <<ipe_warning>>

\* The greatest backed-up action value of state s under the current v.
BestValue(s) ==
    LET qs == {backup_action_value(mdp, s, a, v, gamma) :
                  a \in SeqToSet(actions(mdp, s))}
    IN CHOOSE m \in qs : \A q \in qs : q <= m

\* C4: policy_iteration returns k at the first outer iteration k whose
\* policy-improvement sweep changed no state's action, without a warning;
\* if every one of the maxiter improvement sweeps changed some action it
\* emits a warning and returns maxiter.
C4_PolicyIterationStops ==
    (fn = "policy_iteration" /\ Done) =>
        IF Hits(1) # {}
        THEN /\ result = Return(FirstOf(Hits(1)))
             /\ Len(sweeps) = FirstOf(Hits(1))
             /\ warnings = <<>>
        ELSE /\ result = Return(maxiter)
             /\ Len(sweeps) = maxiter
             /\ pi_warning \in SeqToSet(warnings)

\* C4 for maxiter >= 1, counting only policy_iteration's own warning: the
\* embedded evaluations may emit theirs.
C4_HoldsForPositiveMaxiter ==
    (fn = "policy_iteration" /\ Done /\ maxiter >= 1) =>
        /\ AllSweepsFull
        /\ IF Hits(1) # {}
           THEN /\ result = Return(FirstOf(Hits(1)))
                /\ Len(sweeps) = FirstOf(Hits(1))
                /\ pi_warning \notin SeqToSet(warnings)
           ELSE /\ result = Return(maxiter)
                /\ Len(sweeps) = maxiter
                /\ pi_warning \in SeqToSet(warnings)

\* A stable return of policy_iteration after an embedded evaluation that
\* emitted its convergence warning.
C4_StableAfterEvaluationWarning ==
    /\ fn = "policy_iteration" /\ Done
    /\ Hits(1) # {}
    /\ result = Return(Len(sweeps))
    /\ ipe_warning \in SeqToSet(warnings)
    /\ pi_warning \notin SeqToSet(warnings)

\* policy_iteration returned with the policy stable and no warning.
StableReturn ==
    /\ fn = "policy_iteration" /\ Done
    /\ result.kind = "return"
    /\ warnings = <<>>

\* C5 as stated: after policy_iteration returns with the policy stable and
\* no warning, every v[s] is within tol of the greatest backed-up action
\* value of s, for every initial v and pi.
C5_BellmanOptimalityAfterStableReturn ==
    StableReturn =>
        \A s \in StateSet(mdp) : Abs(v[s] - BestValue(s)) <= tol[1]

\* C5 amended: after policy_iteration returns k >= 2 with the policy stable
\* and no warning (so the last policy evaluation converged), every v[s]
\* differs by less than tol from the backed-up value of pi[s], and that
\* value is close (isclose) to the greatest backed-up action value of s.
C5_BellmanAfterEvaluatedStableReturn ==
    (StableReturn /\ result.value >= 2) =>
        \A s \in StateSet(mdp) :
            /\ Abs(v[s] - backup_action_value(mdp, s, pi[s], v, gamma)) < tol[1]
            /\ isclose(backup_action_value(mdp, s, pi[s], v, gamma), BestValue(s))

\* C5 witness: a stable return without warning after at least one policy
\* evaluation that changed v.
C5_Witness ==
    /\ StableReturn
    /\ result.value >= 2
    /\ v # sweeps[1].v

\* The first action of actions(s), in their order, that is in the set T.
FirstIn(s, T) ==
    LET as == actions(mdp, s)
    IN as[CHOOSE i \in 1..Len(as) :
              as[i] \in T /\ \A j \in 1..(i - 1) : as[j] \notin T]

\* The tie set of state s under the current v.
TieSet(s) ==
    SeqToSet(backup_single_state_optimal_actions(mdp, s, v, gamma).actions)

\* C6: a step of the policy-improvement sweep at state s leaves pi[s] and
\* policy_stable unchanged when pi[s] is in the tie set of s, and otherwise
\* sets pi[s] to the first action of mdp.actions(s) that is in the tie set
\* and policy_stable to False; no other state's action changes.
C6_ImprovementStep ==
    [][ (pc = "pi_sweep" /\ idx < NStates) =>
          LET s == states(mdp)[idx + 1]
          IN /\ IF pi[s] \in TieSet(s)
                THEN pi'[s] = pi[s] /\ policy_stable' = policy_stable
                ELSE pi'[s] = FirstIn(s, TieSet(s)) /\ policy_stable' = FALSE
             /\ \A o \in StateSet(mdp) \ {s} : pi'[o] = pi[o] ]_vars

\* C6 witness: the improvement step just taken found the old action of a
\* state outside a tie set of several actions and replaced it by the first
\* of them, after an earlier step of the sweep had kept an action that is
\* in a tie set.
C6_Witness ==
    /\ fn = "policy_iteration" /\ pc = "pi_sweep" /\ idx >= 2
    /\ LET s == states(mdp)[idx]
       IN /\ Cardinality(TieSet(s)) >= 2
          /\ pi_sweep[s] \notin TieSet(s)
          /\ pi[s] = FirstIn(s, TieSet(s))
    /\ pi[states(mdp)[1]] = pi_sweep[states(mdp)[1]]
    /\ ~policy_stable

\* An improvement sweep that has kept an action that is in a tie set of
\* two without being its first (state C of SimpleMDP, "L").
C6_KeptTiedAction ==
    /\ fn = "policy_iteration" /\ pc = "pi_sweep" /\ idx = NStates
    /\ mdp = SimpleMDP
    /\ Cardinality(TieSet("C")) = 2
    /\ pi["C"] = "L" /\ pi_sweep["C"] = "L"

\* C7: value_iteration returns k at the first sweep k whose biggest change
\* is strictly below tol, without a warning; if none of the maxiter sweeps
\* is below tol it emits a warning and returns maxiter, and does not raise.
C7_ValueIterationStops ==
    (fn = "value_iteration" /\ Done) =>
        IF Hits(tol[1]) # {}
        THEN /\ result = Return(FirstOf(Hits(tol[1])))
             /\ Len(sweeps) = FirstOf(Hits(tol[1]))
             /\ warnings = <<>>
        ELSE /\ result = Return(maxiter)
             /\ Len(sweeps) = maxiter
             /\ warnings = <<vi_warning>>

\* C7 restricted to maxiter >= 1, where the loop variable is bound.
C7_HoldsForPositiveMaxiter ==
    maxiter >= 1 => (AllSweepsFull /\ C7_ValueIterationStops)

\* The backed-up action values of state s under v, one per action.
ActionValues(s) ==
    [a \in SeqToSet(actions(mdp, s)) |-> backup_action_value(mdp, s, a, v, gamma)]

\* The positions in q of the elements of the list sub, when sub is q with
\* some elements left out; {} otherwise.
IsSubsequence(sub, q) ==
    \E f \in [1..Len(sub) -> 1..Len(q)] :
        /\ \A k \in 1..Len(sub) : q[f[k]] = sub[k]
        /\ \A k \in 1..(Len(sub) - 1) : f[k] < f[k + 1]

\* |a - m| <= atol + rtol * |m| with atol = 1e-8 and rtol = 1e-5, on
\* values counted in 1/Scale, without division.
WithinTolerance(a, m) ==
    \/ a = m
    \/ /\ Abs(a - m) <= 21
       /\ Abs(a - m) * AtolInv <= Scale + Abs(m) * (AtolInv \div RtolInv)

ReturnedFrom(op) == pc = "done" /\ call # <<>> /\ call.op = op

\* C8: backup_single_state_optimal_actions(mdp, s, v, gamma) returns the
\* greatest backed-up action value over actions(s) and the list of exactly
\* the actions of actions(s) whose value is close (isclose) to it: the list
\* is not empty, holds an action that attains the maximum and every tied
\* action, holds no action outside the tolerance, and is in the order of
\* actions(s).
C8_OptimalActionsAreAllTies ==
    ReturnedFrom("backup_single_state_optimal_actions") =>
        LET s == call.state[1]
            q == ActionValues(s)
            r == result.value
        IN /\ \A a \in DOMAIN q : q[a] <= r.action_value
           /\ \E a \in DOMAIN q : q[a] = r.action_value
           /\ r.actions # <<>>
           /\ \E a \in SeqToSet(r.actions) : q[a] = r.action_value
           /\ SeqToSet(r.actions) =
                 {a \in DOMAIN q : WithinTolerance(q[a], r.action_value)}
           /\ IsSubsequence(r.actions, actions(mdp, s))

\* C8 witness: a call that returned two actions, one attaining the maximum
\* and one whose value is below it yet within the tolerance, while another
\* state of the same MDP has an action outside the tolerance.
C8_Witness ==
    /\ ReturnedFrom("backup_single_state_optimal_actions")
    /\ LET s == call.state[1]
           q == ActionValues(s)
           r == result.value
       IN /\ Len(r.actions) >= 2
          /\ \E a \in SeqToSet(r.actions) : q[a] < r.action_value
          /\ \E o \in StateSet(mdp) :
                Len(backup_single_state_optimal_actions(mdp, o, v, gamma).actions)
                   < Len(actions(mdp, o))

\* The mapping v that the array a stands for: v[s'] = a[s2i(s')].
MappingOf(a) == [s \in StateSet(mdp) |-> a[s2i(mdp, s)]]

\* C9: for every state s, backup_optimal_values(mdp, v_in, gamma)[s2i(s)]
\* is the greatest over a in actions(s) of backup_action_value(mdp, s, a,
\* v, gamma) with v[s'] = v_in[s2i(s')], which is the value returned by
\* backup_single_state_optimal_actions for s (the next-state probabilities
\* of SimpleMDP and GamblersProblem sum to 1).
C9_OptimalValuesAreMaxActionValues ==
    ReturnedFrom("backup_optimal_values") =>
        \A s \in StateSet(mdp) :
            LET vmap == MappingOf(initial_values)
                qs == {backup_action_value(mdp, s, a, vmap, gamma) :
                          a \in SeqToSet(actions(mdp, s))}
                out == result.value[s2i(mdp, s)]
            IN /\ out \in qs
               /\ \A q \in qs : q <= out
               /\ out = backup_single_state_optimal_actions(
                            mdp, s, vmap, gamma).action_value

\* C9 witness: a returned array with a negative entry for a state whose
\* actions have different values, under a discount below 1.
C9_Witness ==
    /\ ReturnedFrom("backup_optimal_values")
    /\ gamma < One
    /\ \E s \in StateSet(mdp) :
          /\ result.value[s2i(mdp, s)] < 0
          /\ \E a, b \in SeqToSet(actions(mdp, s)) :
                backup_action_value(mdp, s, a, v, gamma)
                   # backup_action_value(mdp, s, b, v, gamma)

\* The list q reversed.
Reverse(q) == [i \in 1..Len(q) |-> q[Len(q) + 1 - i]]

\* The list q started at its k-th element, the elements before it moved to
\* the end.
Rotate(q, k) == SubSeq(q, k, Len(q)) \o SubSeq(q, 1, k - 1)

\* Visiting orders: every rotation of mdp.states and of its reverse.
SweepOrders ==
    {Rotate(states(mdp), k) : k \in 1..NStates}
       \cup {Rotate(Reverse(states(mdp)), k) : k \in 1..NStates}

\* One in-place sweep in the given order: each state's value replaced by
\* its greatest backed-up action value before the next state is backed up.
RECURSIVE InPlaceSweep(_, _)
InPlaceSweep(order, vmap) ==
    IF order = <<>> THEN vmap
    ELSE InPlaceSweep(Tail(order),
            [vmap EXCEPT ![Head(order)] =
                backup_single_state_optimal_actions(
                    mdp, Head(order), vmap, gamma).action_value])

\* C10: every entry of the array backup_optimal_values returns is what a
\* backup of that one state from the input array gives, the array is the
\* same whatever the order in which the states are visited, and the
\* caller's input array is as it was before the call.
C10_OptimalValuesSweepIsJacobi ==
    ReturnedFrom("backup_optimal_values") =>
        /\ \A s \in StateSet(mdp) :
              result.value[s2i(mdp, s)] =
                 backup_optimal_values_in(<<s>>, mdp, initial_values, gamma)[s2i(mdp, s)]
        /\ \A order \in SweepOrders :
              backup_optimal_values_in(order, mdp, initial_values, gamma)
                 = result.value
        /\ initial_values = ArrayOf(mdp, v)

\* C10 witness: a returned array that differs from the input and from
\* what an in-place sweep in the order of mdp.states would have given.
C10_Witness ==
    /\ ReturnedFrom("backup_optimal_values")
    /\ result.value # initial_values
    /\ result.value # ArrayOf(mdp, InPlaceSweep(states(mdp), v))

\* The probability of moving from s to ns under the policy pol, in
\* 1/(One*One): the sum over the pairs (a, p_a) of pol[s] of p_a times the
\* probability that a leads from s to ns.
TransitionProbability(s, ns) ==
    SumOfSeq([k \in 1..Len(pol[s]) |->
        LET t == next_states_and_rewards(mdp, s, pol[s][k][1])
        IN pol[s][k][2] *
              SumOfSeq([n \in 1..Len(t.nss) |->
                          IF t.nss[n] = ns THEN t.ps[n] ELSE 0])])

\* The expected immediate reward of s under pol, in 1/(One*Scale).
ExpectedReward(s) ==
    SumOfSeq([k \in 1..Len(pol[s]) |->
        pol[s][k][2] * next_states_and_rewards(mdp, s, pol[s][k][1]).exp_r])

\* sum(p_a * (exp_r + gamma * sum(p * vmap[ns]))) over pol[s] without any
\* rounding, in 1/(One*One*One*Scale): the value of backup_single_state_
\* value(mdp, s, vmap, gamma, pol) in exact arithmetic.
ExactBackup(s, vmap) ==
    SumOfSeq([k \in 1..Len(pol[s]) |->
        LET t == next_states_and_rewards(mdp, s, pol[s][k][1])
        IN pol[s][k][2] *
              (t.exp_r * One * One
                 + gamma * SumOfSeq([n \in 1..Len(t.nss) |->
                                        t.ps[n] * vmap[t.nss[n]]]))])

\* (A vmap + b)[i], vmap indexed through s2i, in 1/(One*One*One*Scale).
AffineEntry(A, b, i, vmap) ==
    SumOfSeq([c \in 1..NStates |-> A[i][c - 1] * vmap[i2s(mdp, c - 1)]])
       + b[i] * One * One

\* C11: for (A, b) = backup_policy_values_operator(mdp, gamma, pi) and
\* every state s, A[s2i(s), s2i(ns)] is gamma times the probability of
\* moving from s to ns under pi, b[s2i(s)] is the expected immediate reward
\* of s under pi, and (A v + b)[s2i(s)] is backup_single_state_value(mdp,
\* s, v, gamma, pi): the same number in exact arithmetic, which the
\* fixed-point backup_single_state_value holds rounded down (at most one
\* unit of 1/Scale below).
C11_OperatorIsPolicyBackup ==
    ReturnedFrom("backup_policy_values_operator") =>
        LET A == result.value.A
            b == result.value.b
        IN \A s \in StateSet(mdp) :
              LET i == s2i(mdp, s)
                  q == AffineEntry(A, b, i, v) \div (One * One * One)
              IN /\ \A ns \in StateSet(mdp) :
                       A[i][s2i(mdp, ns)] = gamma * TransitionProbability(s, ns)
                 /\ b[i] = ExpectedReward(s)
                 /\ AffineEntry(A, b, i, v) = ExactBackup(s, v)
                 /\ q - backup_single_state_value(mdp, s, v, gamma, pol[s])
                       \in {0, 1}

\* C11 witness: a returned operator, for a discount below 1 and a v that is
\* not zero, with an entry of A that two actions of the policy contribute
\* to and a negative entry of b.
C11_Witness ==
    /\ ReturnedFrom("backup_policy_values_operator")
    /\ gamma < One
    /\ \E s \in StateSet(mdp) : v[s] # 0
    /\ \E s \in StateSet(mdp) : result.value.b[s2i(mdp, s)] < 0
    /\ \E s, ns \in StateSet(mdp) :
          /\ Len(pol[s]) >= 2
          /\ \A k \in 1..Len(pol[s]) :
                /\ pol[s][k][2] > 0
                /\ ns \in SeqToSet(next_states_and_rewards(mdp, s, pol[s][k][1]).nss)
          /\ result.value.A[s2i(mdp, s)][s2i(mdp, ns)] > 0

\* Sum and product of two exact numbers.
QAdd(x, y) == Ratio(x[1] * y[2] + y[1] * x[2], x[2] * y[2])

QMul(x, y) == Ratio(x[1] * y[1], x[2] * y[2])

RECURSIVE QSum(_)
QSum(q) == IF q = <<>> THEN <<0, 1>> ELSE QAdd(Head(q), QSum(Tail(q)))

\* sum(p_a * (exp_r + gamma * sum(p * vmap[ns]))) over pol[s], on a mapping
\* vmap of exact numbers: backup_single_state_value(mdp, s, vmap, gamma,
\* pol) in exact arithmetic, in 1/Scale.
RationalBackup(s, vmap) ==
    QSum([k \in 1..Len(pol[s]) |->
        LET t == next_states_and_rewards(mdp, s, pol[s][k][1])
        IN QMul(Ratio(pol[s][k][2], One),
                QAdd(<<t.exp_r, 1>>,
                     QMul(Ratio(gamma, One),
                          QSum([n \in 1..Len(t.nss) |->
                                  QMul(Ratio(t.ps[n], One), vmap[t.nss[n]])]))))])

\* C12: the mapping exact_state_values(mdp, gamma, pi) returns has exactly
\* the states of mdp.states as its keys, one entry per state, and for every
\* state s its value v[s] is backup_single_state_value(mdp, s, v, gamma,
\* pi), in exact arithmetic; the call returns whenever gamma is below 1.
C12_ExactValuesAreFixedPoint ==
    ReturnedFrom("exact_state_values") =>
        /\ gamma < One => result.kind = "return"
        /\ result.kind = "return" =>
              /\ DOMAIN result.value = StateSet(mdp)
              /\ Cardinality(DOMAIN result.value) = NStates
              /\ \A s \in StateSet(mdp) :
                    result.value[s] = RationalBackup(s, result.value)

\* C12 witness: a returned mapping, under a policy that mixes two actions,
\* with a negative value and a value that is not a whole number of 1/Scale.
C12_Witness ==
    /\ ReturnedFrom("exact_state_values")
    /\ result.kind = "return"
    /\ \E s \in StateSet(mdp) : Len(pol[s]) >= 2
    /\ \E s \in StateSet(mdp) : result.value[s][1] < 0
    /\ \E s \in StateSet(mdp) : result.value[s][2] > 1

\* A call of exact_state_values with gamma = 1.0 that raised LinAlgError:
\* eye - A is singular (an absorbing state has a row of zeros).
C12_SingularCase ==
    /\ ReturnedFrom("exact_state_values")
    /\ gamma = One
    /\ result = LinAlgError

\* C13: exact_optimum_state_values raises an exception and returns no
\* mapping whenever the root-finder reports failure, without emitting a
\* warning in place of it; when the root-finder reports success the call
\* returns one value per state, the value of index idx under the key
\* i2s(idx), and does not raise.
C13_RootFailureIsRaised ==
    ReturnedFrom("exact_optimum_state_values") =>
        IF call.opt_result.success
        THEN /\ result.kind = "return"
             /\ DOMAIN result.value = StateSet(mdp)
             /\ \A s \in StateSet(mdp) :
                   result.value[s] = call.opt_result.x[s2i(mdp, s)]
             /\ warnings = <<>>
        ELSE /\ result = OptimizeWarning
             /\ warnings = <<>>

\* C13 witness: both outcomes for the same x, which is not zero in some
\* state: here the root-finder reported failure and the call raised.
C13_Witness ==
    /\ ReturnedFrom("exact_optimum_state_values")
    /\ ~call.opt_result.success
    /\ \E i \in DOMAIN call.opt_result.x : call.opt_result.x[i] # 0
    /\ result = OptimizeWarning

\* A call of exact_optimum_state_values that returned the mapping of the
\* root the root-finder reported.
C13_SuccessCase ==
    /\ ReturnedFrom("exact_optimum_state_values")
    /\ call.opt_result.success
    /\ result.kind = "return"
    /\ \E s \in StateSet(mdp) : result.value[s] # 0

\* The actions that are legal in a state: actions(state), and the actions
\* property for GridWorld.
LegalActions(m, state) ==
    IF m.kind = "GridWorld" THEN SeqToSet(gw_actions)
    ELSE SeqToSet(actions(m, state))

\* The probabilities in what next_states_and_rewards returned, in the
\* order returned.
ProbabilitiesOf(m, returned) ==
    IF m.kind \in {"GridWorld", "JacksCarRental"}
    THEN [k \in 1..Len(returned) |-> returned[k][3]]
    ELSE returned.ps

\* Probability 1.0 in the unit of the probabilities an MDP returns.
CertainIn(m) == IF m.kind = "JacksCarRental" THEN One * One * One * One ELSE One

\* A call of next_states_and_rewards with a legal action has finished.
LegalTransitionCall ==
    /\ pc = "done"
    /\ call.op = "next_states_and_rewards"
    /\ call.args[2] \in LegalActions(mdp, call.args[1])

\* C14: for GamblersProblem, GridWorld and JacksCarRental, every state and
\* every legal action of it, next_states_and_rewards returns next-state
\* probabilities that are all non-negative and sum to 1.
C14_ProbabilitiesSumToOne ==
    (LegalTransitionCall /\ mdp.kind # "SimpleMDP") =>
        /\ result.kind = "return"
        /\ LET ps == ProbabilitiesOf(mdp, result.value)
           IN /\ \A k \in 1..Len(ps) : ps[k] >= 0
              /\ SumOfSeq(ps) = CertainIn(mdp)

\* C14 witness: a JacksCarRental call that moved a car returned several
\* next states of positive probability, one of them a full location.
C14_Witness ==
    /\ LegalTransitionCall
    /\ mdp.kind = "JacksCarRental"
    /\ call.args[2] # 0
    /\ result.kind = "return"
    /\ \E j, k \in 1..Len(result.value) :
         /\ j # k
         /\ result.value[j][3] > 0
         /\ result.value[k][3] > 0
         /\ result.value[k][1][1] = mdp.capacity

\* C14, the other two MDPs: a GamblersProblem stake and a GridWorld move
\* were checked as well.
C14_GamblerCase ==
    /\ LegalTransitionCall
    /\ mdp.kind = "GamblersProblem"
    /\ call.args[2] # 0

\* C15: s2i and i2s are mutually inverse and agree with the position in
\* states, for the default implementation (SimpleMDP, JacksCarRental) and
\* for the overrides of GridWorld and GamblersProblem: for a state s,
\* states[s2i(s)] == s and i2s(s2i(s)) == s; for an index i of states,
\* i2s(i) == states[i] and s2i(i2s(i)) == i.
C15_IndexingIsABijection ==
    /\ (pc = "done" /\ call.op = "s2i") =>
          /\ result.kind = "return"
          /\ result.value \in 0..(Len(states(mdp)) - 1)
          /\ states(mdp)[result.value + 1] = call.args[1]
          /\ i2s(mdp, result.value) = call.args[1]
    /\ (pc = "done" /\ call.op = "i2s") =>
          /\ result.kind = "return"
          /\ result.value = states(mdp)[call.args[1] + 1]
          /\ s2i(mdp, result.value) = call.args[1]

\* C15 witness: on a GridWorld with several rows, s2i of a cell off the
\* diagonal returned its row-major position.
C15_Witness ==
    /\ pc = "done"
    /\ call.op = "s2i"
    /\ mdp.kind = "GridWorld"
    /\ call.args[1][1] # call.args[1][2]
    /\ result = Return(call.args[1][1] * mdp.size + call.args[1][2])

\* C15, the other direction and the default implementation: i2s of a
\* non-zero index of a JacksCarRental returned a state.
C15_DefaultCase ==
    /\ pc = "done"
    /\ call.op = "i2s"
    /\ mdp.kind = "JacksCarRental"
    /\ call.args[1] > 0
    /\ result.kind = "return"

\* A call of next_states_and_rewards with an action that is not in
\* actions(state) has finished.
IllegalTransitionCall ==
    /\ pc = "done"
    /\ call.op = "next_states_and_rewards"
    /\ call.args[2] \notin LegalActions(mdp, call.args[1])

\* C16: next_states_and_rewards(state, action) with an action that is not
\* in actions(state) fails with an error and never returns a transition
\* table, for GamblersProblem, GridWorld and JacksCarRental.
C16_IllegalActionFails ==
    IllegalTransitionCall => result.kind # "return"

\* C16, the part that holds: JacksCarRental's two asserts reject every
\* move outside actions(state).
C16_HoldsForJacksCarRental ==
    (IllegalTransitionCall /\ mdp.kind = "JacksCarRental") =>
        result = AssertionError

\* C16: an illegal move was tried on a JacksCarRental.
C16_JacksCarRentalCase ==
    IllegalTransitionCall /\ mdp.kind = "JacksCarRental"

\* C16: a stake larger than min(state, goal - state) returned a table whose
\* next states are not states of the GamblersProblem.
C16_OversizedStakeReturned ==
    /\ IllegalTransitionCall
    /\ mdp.kind = "GamblersProblem"
    /\ call.args[2] > Min2(call.args[1], mdp.goal - call.args[1])
    /\ result.kind = "return"
    /\ \E k \in 1..Len(result.value.nss) :
          result.value.nss[k] \notin StateSet(mdp)

\* C17: GamblersProblem.actions(s) is [0] for s == 0 and s == goal, and
\* the stakes 1..min(s, goal - s) in increasing order for every other
\* state; so every next state of a legal action lies in 0..goal.
C17_GamblerStakes ==
    /\ (pc = "done" /\ call.op = "actions" /\ mdp.kind = "GamblersProblem") =>
          LET s == call.args[1]
              stakes == result.value
          IN /\ result.kind = "return"
             /\ (s = 0 \/ s = mdp.goal) => stakes = <<0>>
             /\ (s # 0 /\ s # mdp.goal) =>
                   /\ Len(stakes) = Min2(s, mdp.goal - s)
                   /\ \A k \in 1..Len(stakes) : stakes[k] = k
    /\ (LegalTransitionCall /\ mdp.kind = "GamblersProblem") =>
          /\ result.kind = "return"
          /\ \A k \in 1..Len(result.value.nss) :
                result.value.nss[k] \in 0..mdp.goal

\* C17 witness: actions(s) returned several stakes in a state closer to
\* the goal than to ruin.
C17_Witness ==
    /\ pc = "done"
    /\ call.op = "actions"
    /\ mdp.kind = "GamblersProblem"
    /\ mdp.goal - call.args[1] < call.args[1]
    /\ result.kind = "return"
    /\ Len(result.value) >= 2

\* C17, the consequence: the largest legal stake of such a state was
\* played and reached the goal.
C17_LargestStakeCase ==
    /\ LegalTransitionCall
    /\ mdp.kind = "GamblersProblem"
    /\ call.args[2] >= 2
    /\ call.args[1] + call.args[2] = mdp.goal

\* C18: in GamblersProblem a legal non-zero stake a from state s leads to
\* s - a with probability 1 - p_h and to s + a with probability p_h, with
\* expected reward p_h exactly when s + a == goal and 0 otherwise; the
\* terminal states 0 and goal are absorbing with reward 0 (their only
\* legal stake, 0, returns the same state with probability 1).
C18_GamblerTransitions ==
    (LegalTransitionCall /\ mdp.kind = "GamblersProblem") =>
        LET s == call.args[1]
            a == call.args[2]
            t == result.value
        IN /\ result.kind = "return"
           /\ a # 0 =>
                 /\ t.nss = <<s - a, s + a>>
                 /\ t.ps = <<One - mdp.p_h, mdp.p_h>>
                 /\ (s + a = mdp.goal) => t.exp_r * One = mdp.p_h * Scale
                 /\ (s + a # mdp.goal) => t.exp_r = 0
           /\ (s = 0 \/ s = mdp.goal) =>
                 /\ a = 0
                 /\ t.nss = <<s>>
                 /\ t.ps = <<One>>
                 /\ t.exp_r = 0

\* C18 witness: a stake that reaches the goal was played and paid p_h.
C18_Witness ==
    /\ LegalTransitionCall
    /\ mdp.kind = "GamblersProblem"
    /\ call.args[2] # 0
    /\ call.args[1] + call.args[2] = mdp.goal
    /\ result.kind = "return"
    /\ result.value.exp_r > 0

\* C18, the absorbing case: stake 0 was played in the terminal state goal.
C18_TerminalCase ==
    /\ LegalTransitionCall
    /\ mdp.kind = "GamblersProblem"
    /\ call.args[1] = mdp.goal
    /\ result.kind = "return"

\* The cell a move from a cell points at, by the compass: rows grow to the
\* south, columns to the east.
Neighbour(cell, action) ==
    CASE action = "n" -> <<cell[1] - 1, cell[2]>>
      [] action = "s" -> <<cell[1] + 1, cell[2]>>
      [] action = "e" -> <<cell[1], cell[2] + 1>>
      [] action = "w" -> <<cell[1], cell[2] - 1>>

C19_WormholeCase ==
    /\ LegalTransitionCall
    /\ mdp.kind = "GridWorld"
    /\ call.args[1] \in DOMAIN mdp.wormholes
    /\ result.kind = "return"
    /\ result.value[1][1] # call.args[1]

\* C19, the plain case: a move to a neighbouring cell was made.
C19_MoveCase ==
    /\ LegalTransitionCall
    /\ mdp.kind = "GridWorld"
    /\ call.args[1] \notin DOMAIN mdp.wormholes
    /\ result.kind = "return"
    /\ result.value[1][2] = 0

\* A call of branch_transition_prob_and_exp_rentals has finished.
BranchCall ==
    pc = "done" /\ call.op = "branch_transition_prob_and_exp_rentals"

\* C20: JacksCarRental.branch_transition_prob_and_exp_rentals never raises
\* and never divides by zero: when the total probability of going from
\* cars_morning to cars_evening is zero it returns probability 0 and
\* expected rentals 0.
C20_ZeroProbabilityIsGuarded ==
    BranchCall =>
        /\ result.kind = "return"
        /\ result.value[2] # NaN
        /\ result.value[1] = 0 => result.value[2] = Some(0)

\* C20 witness: a branch without demand was asked for a day that ends with
\* fewer cars than it began with, and answered (0.0, 0.0).
C20_Witness ==
    /\ BranchCall
    /\ call.args[3] < call.args[2]
    /\ result = Return(<<0, Some(0)>>)

\* C20, the ordinary case: a transition of positive probability with
\* positive expected rentals was returned.
C20_PositiveCase ==
    /\ BranchCall
    /\ result.kind = "return"
    /\ result.value[1] > 0
    /\ result.value[2] # NaN
    /\ result.value[2][1] > 0

\* The last call on the agent that returned, among evs ([op |-> "none"]
\* when none has).
RECURSIVE LastReturned(_)
LastReturned(evs) ==
    IF evs = <<>> THEN [op |-> "none"]
    ELSE IF evs[Len(evs)].outcome.kind = "return" THEN evs[Len(evs)]
    ELSE LastReturned(SubSeq(evs, 1, Len(evs) - 1))

C21_ActionTwiceCase ==
    /\ Len(events) = 2
    /\ events[1].op = "action" /\ events[1].outcome.kind = "return"
    /\ events[2].op = "action" /\ events[2].outcome = RuntimeError

\* C21: policy.update raised, the agent kept both fields, and the reward
\* sent again was accepted.
C21_FailedUpdateCase ==
    /\ Len(events) = 3
    /\ events[2].op = "reward" /\ events[2].outcome = PolicyError
    /\ events[3].op = "reward" /\ events[3].outcome.kind = "return"

StickReturned ==
    /\ environment.pc = "returned"
    /\ environment.action = STICK
    /\ environment.outcome.kind = "return"

\* What C24 says of a returned act(STICK): the dealer stands at 17 or
\* more, the player's count and usable ace are as they were, and the
\* reward is +1 when the dealer is bust or below the player, -1 when the
\* dealer (at most 21) is above the player, 0 when they are level.
StickOutcomeIsRight ==
    (environment.pc = "returned" /\ environment.action = STICK) =>
        LET st == environment.state
            reward == environment.outcome.value
        IN /\ environment.outcome.kind = "return"
           /\ st.dealer_card >= 17
           /\ st.current_count = environment.before.current_count
           /\ st.usable_ace = environment.before.usable_ace
           /\ (st.dealer_card > 21 \/ st.dealer_card < st.current_count)
                 => reward = 1
           /\ (st.dealer_card <= 21 /\ st.dealer_card > st.current_count)
                 => reward = -1
           /\ (st.dealer_card <= 21 /\ st.dealer_card = st.current_count)
                 => reward = 0

C24_DealerAceCase ==
    /\ StickReturned
    /\ environment.before.dealer_card = 1
    /\ environment.n_drawn >= 3
    /\ ~environment.dealer_usable_ace

\* C24: the dealer went bust and the call returned +1.
C24_DealerBustCase ==
    /\ StickReturned
    /\ environment.state.dealer_card > 21
    /\ environment.outcome = Return(1)

\* C24: both counts above 21 and equal; the dealer's bust decides (+1).
C24_BothBustCase ==
    /\ StickReturned
    /\ environment.state.dealer_card > 21
    /\ environment.state.dealer_card = environment.state.current_count

\* What C30 says of a returned or raised call of act.
ActOutcomeIsRight ==
    LET action == environment.action
        out == environment.outcome
    IN /\ (out = ValueError) <=> (action \notin {HIT, STICK})
       /\ action \in {HIT, STICK} =>
             out.kind = "return" /\ out.value \in {-1, 0, 1}
       /\ action = HIT =>
             /\ environment.n_drawn = 1
             /\ out = Return(IF environment.state.current_count > 21
                             THEN -1 ELSE 0)

\* C30: Blackjack.act raises ValueError exactly when the action is neither
\* HIT nor STICK; for HIT or STICK it returns a reward in {-1, 0, 1} in
\* every state, including those in which the player's count already
\* exceeds 21; a HIT draws exactly one card and returns -1 if the
\* resulting player count exceeds 21 and 0 otherwise.
C30_ActRewardsOrValueError ==
    environment.pc = "returned" => ActOutcomeIsRight

\* C30, the part that holds: the same for the calls that find the
\* player's count at 21 or less.
C30_HoldsUpTo21 ==
    (environment.pc = "returned" /\ environment.before.current_count <= 21)
        => ActOutcomeIsRight

\* C30: a HIT on a player who is already bust raised ValueError and drew no
\* card.
C30_HitWhenBustRaises ==
    /\ environment.pc = "returned"
    /\ environment.action = HIT
    /\ environment.before.current_count > 21
    /\ environment.outcome = ValueError
    /\ environment.n_drawn = 0

\* The calls of one whole step of run on a simulator with n callbacks.
ExpectedStep(n) ==
    << <<"observe", 0>>, <<"action", 0>>, <<"act", 0>>, <<"reward", 0>>,
       <<"add", 0>> >>
      \o [k \in 1..n |-> <<"callback", k>>]
      \o << <<"done", 0>> >>

IsPrefix(a, b) == Len(a) <= Len(b) /\ a = SubSeq(b, 1, Len(a))

\* A step of the current run has completed and no later step has begun.
BetweenSteps ==
    /\ simulator.steps > simulator.steps_before
    /\ \/ simulator.pc = "observe"
       \/ simulator.pc = "idle" /\ simulator.outcome.kind = "return"

C22_AbortedStepCase ==
    /\ simulator.pc = "idle"
    /\ simulator.outcome = ValueError
    /\ events = << <<"observe", 0>>, <<"action", 0>>, <<"act", 0>> >>

\* C23: run(n_steps) executes steps until n_steps steps have run or
\* environment.done is true after a step, whichever comes first; each
\* executed step appends exactly one entry to each of history.states,
\* history.actions and history.rewards, so after any sequence of run
\* calls the three lists have equal length and t equals the total number
\* of steps executed.
C23_RunStopsAndCounts ==
    LET h == simulator.history
        steps_of_run == simulator.steps - simulator.steps_before
    IN /\ Len(h.states) = Len(h.actions) /\ Len(h.actions) = Len(h.rewards)
       /\ simulator.pc = "idle" => sim_t(simulator) = simulator.steps
       /\ steps_of_run <= simulator.n_steps
       /\ (simulator.pc = "observe" /\ steps_of_run > 0) => ~done(environment)
       /\ (simulator.pc = "idle" /\ simulator.outcome.kind = "return") =>
             \/ steps_of_run = simulator.n_steps
             \/ steps_of_run > 0 /\ done(environment)

\* C23 witness: a run of three steps stopped after two because the
\* environment was done, with two entries in each list.
C23_Witness ==
    /\ simulator.pc = "idle"
    /\ simulator.outcome.kind = "return"
    /\ simulator.runs = 1
    /\ simulator.n_steps = 3
    /\ simulator.steps = 2
    /\ done(environment)
    /\ Len(simulator.history.rewards) = 2

\* C23: a run ended because its n_steps steps had run, the environment not
\* done, and a second run went on from there.
C23_SecondRunCase ==
    /\ simulator.pc = "idle"
    /\ simulator.outcome.kind = "return"
    /\ simulator.runs = 2
    /\ simulator.steps_before > 0
    /\ simulator.steps = simulator.steps_before + simulator.n_steps
    /\ simulator.n_steps > 0
    /\ sim_t(simulator) = simulator.steps

\* Both locations hold between 0 and capacity cars.
WithinCapacity(m, counts) ==
    \A branch \in 1..2 : counts[branch] >= 0 /\ counts[branch] <= m.capacity

\* The moves m, of any size that could matter, that leave both locations
\* of a JacksCarRental between 0 and capacity cars.
MovesWithinCapacity(m, state) ==
    {move \in (-(2 * m.capacity + 1))..(2 * m.capacity + 1) :
        WithinCapacity(m, counts_after_moving_cars(state, move))}

C25_LegalMoveCase ==
    /\ LegalTransitionCall
    /\ mdp.kind = "JacksCarRental"
    /\ call.args[2] < 0
    /\ result.kind = "return"


\* policy_iteration returned with the policy stable: its last
\* policy-improvement sweep changed no state's action.
ReturnedStable ==
    /\ fn = "policy_iteration" /\ Done
    /\ result.kind = "return"
    /\ sweeps[Len(sweeps)].delta = 0

\* C26: when policy_iteration returns with the policy stable, every state
\* s has pi[s] in the tie set of optimal actions computed by
\* backup_single_state_optimal_actions from the final v, and the key set
\* of pi and of v is the same as on entry (no state added or removed).
C26_StablePolicyIsGreedy ==
    fn = "policy_iteration" =>
       /\ DOMAIN pi = StateSet(mdp)
       /\ DOMAIN v = StateSet(mdp)
       /\ (Done /\ result.kind = "return") =>
             (policy_stable <=> sweeps[Len(sweeps)].delta = 0)
       /\ ReturnedStable =>
             \A s \in StateSet(mdp) : pi[s] \in TieSet(s)

\* C26 witness: a stable return after at least one sweep that changed the
\* policy and one evaluation that changed v, with a state whose tie set
\* holds several actions.
C26_Witness ==
    /\ ReturnedStable
    /\ result.value >= 2
    /\ sweeps[1].delta > 0
    /\ v # sweeps[1].v
    /\ \E s \in StateSet(mdp) : Cardinality(TieSet(s)) >= 2 /\ pi[s] \in TieSet(s)

\* C26: policy_iteration returned with the policy not stable, maxiter
\* sweeps having each changed an action, and some pi[s] is not in the tie
\* set of the final v.
C26_UnstableReturnCase ==
    /\ fn = "policy_iteration" /\ Done
    /\ result.kind = "return"
    /\ ~policy_stable
    /\ \E s \in StateSet(mdp) : pi[s] \notin TieSet(s)


\* One in-place sweep of iterative_policy_evaluation over the states in
\* the given order: each state's value replaced by its backed-up value
\* under the policy before the next state is backed up.
RECURSIVE InPlaceEvaluation(_, _)
InPlaceEvaluation(order, vmap) ==
    IF order = <<>> THEN vmap
    ELSE InPlaceEvaluation(Tail(order),
            [vmap EXCEPT ![Head(order)] =
                backup_single_state_value(mdp, Head(order), vmap, gamma,
                                          PiOf(Head(order)))])

\* Every state backed up from the one mapping vmap, none seeing another's
\* new value: the greatest action values, and the values under the policy.
SweepFromCopy(vmap) ==
    [s \in StateSet(mdp) |->
        backup_single_state_optimal_actions(mdp, s, vmap, gamma).action_value]

EvaluationFromCopy(vmap) ==
    [s \in StateSet(mdp) |->
        backup_single_state_value(mdp, s, vmap, gamma, PiOf(s))]

\* C27: the sweeps of iterative_policy_evaluation and value_iteration
\* update v in place in the order of mdp.states: the backup of a state
\* reads, for successor states visited earlier in the same sweep, the
\* values written in that sweep, and for successors visited later the
\* values of the previous sweep; one sweep of value_iteration from v
\* therefore need not equal backup_optimal_values applied to v.
C27_SweepsAreInPlace ==
    /\ pc = "vi_sweep" =>
          /\ visited = SubSeq(states(mdp), 1, idx)
          /\ v = InPlaceSweep(visited, v_sweep)
    /\ (pc = "ipe_sweep" /\ fn = "iterative_policy_evaluation") =>
          /\ visited = SubSeq(states(mdp), 1, e_idx)
          /\ v = InPlaceEvaluation(visited, v_sweep)

\* C27 witness: a finished sweep of value_iteration left a v that is not
\* what backup_optimal_values gives for the v the sweep began with, in a
\* case where backing every state up from that v gives just what
\* backup_optimal_values gives.
C27_Witness ==
    /\ fn = "value_iteration"
    /\ pc = "vi_sweep" /\ idx = NStates
    /\ v # SweepFromCopy(v_sweep)
    /\ ArrayOf(mdp, v) # backup_optimal_values(mdp, ArrayOf(mdp, v_sweep), gamma)
    /\ ArrayOf(mdp, SweepFromCopy(v_sweep))
          = backup_optimal_values(mdp, ArrayOf(mdp, v_sweep), gamma)

\* C27: a finished sweep of iterative_policy_evaluation in which a backup
\* read a value written earlier in the sweep: v is not what the backups
\* would have given from the v the sweep began with.
C27_EvaluationCase ==
    /\ fn = "iterative_policy_evaluation"
    /\ pc = "ipe_sweep" /\ e_idx = NStates
    /\ v # EvaluationFromCopy(v_sweep)


\* C28: for every maxiter >= 0, iterative_policy_evaluation,
\* value_iteration and policy_iteration return the number of sweeps (outer
\* iterations) that were completed; with maxiter == 0 they return 0 and
\* leave v and pi unchanged.
C28_ReturnsSweepsCompleted ==
    Done =>
       /\ result = Return(Len(sweeps))
       /\ maxiter = 0 => (v = v_sweep /\ pi = pi_sweep)

\* C28 restricted to maxiter >= 1, where the loop variable is bound.
C28_HoldsForPositiveMaxiter ==
    maxiter >= 1 => C28_ReturnsSweepsCompleted

\* C28: a call with maxiter == 0 ended, v and pi as they were, with
\* UnboundLocalError instead of 0.
C28_ZeroMaxiterCase ==
    /\ Done
    /\ maxiter = 0
    /\ sweeps = <<>>
    /\ v = v_sweep /\ pi = pi_sweep
    /\ result = UnboundLocalError

\* C28: a call of policy_iteration with maxiter >= 2 returned the number
\* of its improvement sweeps, fewer than maxiter.
C28_PositiveCase ==
    /\ fn = "policy_iteration" /\ Done
    /\ maxiter >= 2
    /\ result = Return(Len(sweeps))
    /\ Len(sweeps) < maxiter


\* The embedded iterative_policy_evaluation is running.
InEvaluation == pc \in {"ipe_for", "ipe_sweep", "ipe_return"}

\* The calls of iterative_policy_evaluation policy_iteration has made: one
\* after each improvement sweep that changed an action.
EvaluationsCalled ==
    Cardinality({k \in 1..Len(sweeps) : sweeps[k].delta > 0})

\* The sweeps of policy_iteration and of its evaluations are within their
\* budgets.
WithinBudgets ==
    /\ niter <= maxiter
    /\ Len(sweeps) <= maxiter
    /\ EvaluationsCalled <= maxiter
    /\ InEvaluation => (e_maxiter = DefaultMaxiter /\ e_niter <= DefaultMaxiter)

\* The steps one sweep of the embedded evaluation takes (the for
\* statement, a backup per state, the stopping test), and the steps a
\* whole evaluation can take before it has returned.
StepsOfEvaluationSweep == NStates + 2

StepsOfEvaluation == DefaultMaxiter * StepsOfEvaluationSweep + 2

\* The steps one turn of policy_iteration's loop can take: the for
\* statement, an improvement step per state, the call of the evaluation
\* and the evaluation.
StepsOfIteration == NStates + 2 + StepsOfEvaluation

\* An upper bound of the steps the embedded evaluation has left.
EvaluationStepsLeft ==
    CASE pc = "ipe_for" -> (DefaultMaxiter - e_niter) * StepsOfEvaluationSweep + 2
      [] pc = "ipe_sweep" -> (DefaultMaxiter - e_niter) * StepsOfEvaluationSweep
                                + (NStates - e_idx) + 3
      [] pc = "ipe_return" -> 1

\* An upper bound of the steps the call of policy_iteration has left.
StepsLeft ==
    CASE pc = "done" -> 0
      [] pc = "pi_return" -> 1
      [] pc = "pi_for" -> (maxiter - niter) * StepsOfIteration + 2
      [] pc = "pi_sweep" -> (maxiter - niter) * StepsOfIteration
                               + (NStates - idx) + 3 + StepsOfEvaluation
      [] OTHER -> (maxiter - niter) * StepsOfIteration + 2 + EvaluationStepsLeft

\* The call has a statement to go on with: a backup of the next state of
\* a sweep (the conditions under which pi_improve and ipe_backup act), or
\* one of the statements between the sweeps.
HasNextStep ==
    \/ pc = "pi_sweep" /\ idx < NStates
    \/ pc = "ipe_sweep" /\ e_idx < NStates
    \/ ENABLED (\/ pi_next_sweep \/ pi_stable_break \/ pi_call_evaluation
                \/ ipe_next_sweep \/ ipe_stopping_test \/ ipe_exhausted
                \/ ipe_return_to_pi \/ pi_exhausted \/ pi_return)

\* C29: every call of policy_iteration terminates: it performs at most
\* maxiter policy-improvement sweeps, and each embedded
\* iterative_policy_evaluation runs at most 100 sweeps (its default
\* budget, independent of policy_iteration's maxiter argument), so at most
\* 100 * maxiter evaluation sweeps in total, even when tied optimal
\* actions make successive policies alternate.  Termination is the third
\* and second conjuncts: every step lowers a count of the steps left that
\* is never negative, and a call that has not ended has a step to take.
C29_PolicyIterationTerminates ==
    /\ []WithinBudgets
    /\ [](StepsLeft >= 0 /\ (~Done => HasNextStep))
    /\ [][StepsLeft' < StepsLeft]_vars

\* C29 witness: a call that used up its maxiter >= 2 improvement sweeps
\* without a stable policy, one of its evaluations having used up its 100
\* sweeps, and ended.
C29_Witness ==
    /\ fn = "policy_iteration" /\ Done
    /\ maxiter >= 2
    /\ Len(sweeps) = maxiter
    /\ EvaluationsCalled = maxiter
    /\ pi_warning \in SeqToSet(warnings)
    /\ ipe_warning \in SeqToSet(warnings)

\* C29: an evaluation is in its hundredth sweep, policy_iteration's
\* maxiter being 1.
C29_HundredthSweepCase ==
    /\ fn = "policy_iteration"
    /\ pc = "ipe_sweep"
    /\ e_niter = DefaultMaxiter
    /\ maxiter = 1


=============================================================================
